---- MODULE Spec2Model ----
(***************************************************************************)
(* BackupBanana: the backup engine (BackupThread), the recurring scheduler *)
(* (SchedulerThread + the `schedule` jobs it polls) and the coordinator    *)
(* (BackupApp) with its task / history / log stores.                       *)
(*                                                                         *)
(* The repository ships two variants of the program, BackupBanana.py       *)
(* ("WIN") and BackupBanana_MAC.py ("MAC").  The variable `variant` says   *)
(* which one is running; where the two differ the actions branch on it.    *)
(***************************************************************************)
EXTENDS Integers, Sequences, FiniteSets, TLC

(***************************************************************************)
(* Bounds of the model.                                                    *)
(***************************************************************************)
MaxFiles == 2       \* file names that may occur in a source tree
MaxSubdirs == 1     \* sub-directories that may occur below a source root
MaxMtime == 2       \* modification times of source files are 1..MaxMtime
SlotsPerDay == 2    \* distinct HH:MM values of one day
MaxTime == 18       \* the clock stops advancing here (a week and two days)
MaxJobs == 2        \* schedule.Scheduler.jobs is capped at this length
MaxRuns == 2        \* BackupThread objects created in one behaviour
MaxSize == 2        \* file sizes in the diff specification are 1..MaxSize

(***************************************************************************)
(* Program constants.                                                      *)
(***************************************************************************)
DaysPerWeek == 7    \* the seven weekday names of day_combo

Variants == {"WIN", "MAC"}
FileIds == 1..MaxFiles
Subdirs == 1..MaxSubdirs
RootDir == 0
\* the directory a file name lives in: file 1 in the root, the others below
DirOf(f) == IF f = 1 THEN RootDir ELSE ((f - 2) % MaxSubdirs) + 1

NoDay == -1
NoRun == -1
Unset == "<unset>"      \* an attribute that was never assigned
SrcPaths == {"S1", "S2"}
DstPaths == {"D1", "D2"}
TaskNames == {"T1", "T2"}
Frequencies == {"Once", "Daily", "Weekly"}
\* a key that a hand-edited or damaged tasks.json lacks in a "schedule"
MissingFrequency == "<missing>"
MissingKey == -2        \* stands for a missing "time" or "day"

(***************************************************************************)
(* Sequence helpers.                                                       *)
(***************************************************************************)
Range(s) == {s[i] : i \in DOMAIN s}
RemoveAt(s, i) == SubSeq(s, 1, i - 1) \o SubSeq(s, i + 1, Len(s))
RECURSIVE SetToSeq(_)
\* the elements of a finite set of integers in ascending order
SetToSeq(S) ==
    IF S = {} THEN << >>
    ELSE LET m == CHOOSE x \in S : \A y \in S : x <= y
         IN  <<m>> \o SetToSeq(S \ {m})

(***************************************************************************)
(* The file system.  A tree is a root directory that may exist or not,     *)
(* the set of its sub-directories and one entry per file name.             *)
(***************************************************************************)
\* `data` stands for the content of a file and for its length in bytes;
\* data 0 is a truncated (partly written) file
NoFile == [exists |-> FALSE, mtime |-> 0, data |-> 0]
File(m, d) == [exists |-> TRUE, mtime |-> m, data |-> d]
NoTree == [exists |-> FALSE, dirs |-> {}, files |-> [f \in FileIds |-> NoFile]]
\* mtime of a file written "now": later than every source file's mtime
NowMtime == MaxMtime + 1

DirExists(tree, d) == tree.exists /\ (d = RootDir \/ d \in tree.dirs)
\* os.path.exists(dest_file)
FileExists(tree, f) == DirExists(tree, DirOf(f)) /\ tree.files[f].exists
WellFormedTree(tree) ==
    /\ ~tree.exists => tree.dirs = {}
    /\ \A f \in FileIds : tree.files[f].exists => DirExists(tree, DirOf(f))

\* os.walk(root): top-down, the root first, then each sub-directory
WalkDirs(tree) ==
    IF ~tree.exists THEN << >> ELSE <<RootDir>> \o SetToSeq(tree.dirs)
\* the `files` of one (root, dirs, files) triple of os.walk
FilesIn(tree, d) == SetToSeq({f \in FileIds : DirOf(f) = d /\ FileExists(tree, f)})
\* every file of the walk, in the order in which the walk visits it
RECURSIVE CountFiles(_, _)
CountFiles(tree, ds) ==
    IF ds = << >> THEN 0
    ELSE Len(FilesIn(tree, Head(ds))) + CountFiles(tree, Tail(ds))
\* total_files = sum([len(files) for r, d, files in os.walk(self.source)])
TotalFiles(tree) == CountFiles(tree, WalkDirs(tree))

(***************************************************************************)
(* BackupApp.get_changes: the diff pass.                                   *)
(***************************************************************************)
NewFolder(d) == [kind |-> "folder", id |-> d]
NewFile(f) == [kind |-> "file", id |-> f]
\* (mutant) equal modification times count as newer
NewerOrEqual(sfile, dfile) == sfile.mtime >= dfile.mtime
\* os.path.getmtime(source_file) > os.path.getmtime(dest_file)
Newer(sfile, dfile) == sfile.mtime > dfile.mtime
\* what one file contributes to (new_files, modified_files, total_size)
IsNew(stree, dtree, f) == ~FileExists(dtree, f)
\* (mutant) any difference of the modification times counts
IsModifiedWhenDifferent(stree, dtree, f) ==
    FileExists(dtree, f) /\ stree.files[f].mtime # dtree.files[f].mtime
IsModified(stree, dtree, f) ==
    FileExists(dtree, f) /\ Newer(stree.files[f], dtree.files[f])
RECURSIVE ChangesOfFiles(_, _, _, _)
ChangesOfFiles(stree, dtree, fs, acc) ==
    IF fs = << >> THEN acc
    ELSE LET f == Head(fs)
             size == stree.files[f].data
             acc1 ==
                 IF IsNew(stree, dtree, f)
                 THEN [acc EXCEPT !.new_files = Append(@, NewFile(f)),
                                  !.total_size = @ + size]
                 ELSE IF IsModified(stree, dtree, f)
                 THEN [acc EXCEPT !.modified_files = Append(@, f),
                                  !.total_size = @ + size]
                 ELSE acc
         IN  ChangesOfFiles(stree, dtree, Tail(fs), acc1)
RECURSIVE ChangesOfDirs(_, _, _, _)
ChangesOfDirs(stree, dtree, ds, acc) ==
    IF ds = << >> THEN acc
    ELSE LET d == Head(ds)
             acc1 == IF ~DirExists(dtree, d)
                     THEN [acc EXCEPT !.new_files = Append(@, NewFolder(d))]
                     ELSE acc
             acc2 == ChangesOfFiles(stree, dtree, FilesIn(stree, d), acc1)
         IN  ChangesOfDirs(stree, dtree, Tail(ds), acc2)
get_changes(stree, dtree) ==
    ChangesOfDirs(stree, dtree, WalkDirs(stree),
                  [new_files |-> << >>, modified_files |-> << >>, total_size |-> 0])

(***************************************************************************)
(* Tasks.  self.tasks is a dict: a sequence of entries with distinct names *)
(* in insertion order.                                                     *)
(***************************************************************************)
Task(n, s, d, fr, tm, dy) ==
    [name |-> n, source |-> s, destination |-> d,
     frequency |-> fr, time |-> tm, day |-> dy]
\* the value stored under a name: the entry without its key
TaskInfo(t) == [source |-> t.source, destination |-> t.destination,
                frequency |-> t.frequency, time |-> t.time, day |-> t.day]
TaskNamesOf(ts) == {ts[i].name : i \in DOMAIN ts}
\* position of `name` in the dict, 0 when it is not a key
TaskIndex(ts, name) ==
    IF name \in TaskNamesOf(ts)
    THEN CHOOSE i \in DOMAIN ts : ts[i].name = name
    ELSE 0
\* del self.tasks[name]
DelTask(ts, name) ==
    IF TaskIndex(ts, name) = 0 THEN ts ELSE RemoveAt(ts, TaskIndex(ts, name))
\* self.tasks[name] = new_task: an existing key keeps its position
PutTask(ts, t) ==
    IF TaskIndex(ts, t.name) = 0 THEN Append(ts, t)
    ELSE [ts EXCEPT ![TaskIndex(ts, t.name)] = t]
\* next((name for name, info in self.tasks.items() if info == new_task), None)
OldTaskIndex(ts, t) ==
    LET same == {i \in DOMAIN ts : TaskInfo(ts[i]) = TaskInfo(t)}
    IN  IF same = {} THEN 0 ELSE CHOOSE i \in same : \A j \in same : i <= j
\* the dictionary after the assignment of save_task
SavedTasks(v, ts, t) ==
    IF v = "MAC" THEN PutTask(ts, t)
    ELSE IF TaskIndex(ts, t.name) # 0 THEN PutTask(ts, t)
    ELSE IF OldTaskIndex(ts, t) # 0
         THEN Append(RemoveAt(ts, OldTaskIndex(ts, t)), t)
         ELSE Append(ts, t)

(***************************************************************************)
(* The clock.  Time is counted in slots; slot 0 is Monday, first HH:MM.    *)
(* A reading of datetime.now() in slot t lies strictly inside the slot.    *)
(***************************************************************************)
DayOf(t) == t \div SlotsPerDay
TimeOfDay(t) == t % SlotsPerDay
\* datetime.weekday(): Monday is 0
Weekday(t) == DayOf(t) % DaysPerWeek
WeekOf(t) == DayOf(t) \div DaysPerWeek
WeekSlots == DaysPerWeek * SlotsPerDay

(***************************************************************************)
(* Jobs of the schedule package, as schedule_task builds them.             *)
(***************************************************************************)
Job(task, unit, start_day, at_time) ==
    [task |-> task, unit |-> unit, start_day |-> start_day,
     at_time |-> at_time, next_run |-> 0, last_run |-> NoRun]
\* Job._schedule_next_run for every().day.at(time)
NextRunDaily(job, t) ==
    LET nr == (DayOf(t) + 1) * SlotsPerDay + job.at_time
    IN  IF (job.last_run = NoRun \/ nr - job.last_run > SlotsPerDay)
           /\ job.at_time > TimeOfDay(t)
        THEN nr - SlotsPerDay
        ELSE nr
\* Job._schedule_next_run for every().<weekday>.at(time)
NextRunWeekly(job, t) ==
    LET ahead0 == job.start_day - Weekday(t + WeekSlots)
        ahead == IF ahead0 <= 0 THEN ahead0 + DaysPerWeek ELSE ahead0
        nr == (DayOf(t) + ahead) * SlotsPerDay + job.at_time
    IN  IF nr - t > WeekSlots THEN nr - WeekSlots ELSE nr
ScheduleNextRun(job, t) ==
    [job EXCEPT !.next_run = IF job.unit = "days" THEN NextRunDaily(job, t)
                              ELSE NextRunWeekly(job, t)]
\* Job.should_run
ShouldRun(job, t) == t >= job.next_run
RECURSIVE SortByNextRun(_, _)
\* sorted(runnable_jobs): indices into jobs, by next_run, stable
SortByNextRun(js, idx) ==
    IF idx = {} THEN << >>
    ELSE LET m == CHOOSE i \in idx :
                    \A k \in idx : js[i].next_run < js[k].next_run
                                   \/ (js[i].next_run = js[k].next_run /\ i <= k)
         IN  <<m>> \o SortByNextRun(js, idx \ {m})
Runnable(js, t) == SortByNextRun(js, {i \in DOMAIN js : ShouldRun(js[i], t)})

\* BackupApp.schedule_task(task_name) against the dictionary `ts` that
\* self.tasks holds when it is called, at time t.  outcome: "ok" (returned),
\* "KeyError" (task_name is not a key), "ScheduleValueError" (at() refused).
schedule_task(v, ts, name, js, t) ==
    IF TaskIndex(ts, name) = 0
    THEN [outcome |-> "KeyError", jobs |-> js]
    ELSE LET task == ts[TaskIndex(ts, name)]
         IN  \* time_str = schedule_info["time"]
             IF task.time = MissingKey
             THEN [outcome |-> "KeyError", jobs |-> js]
             ELSE IF task.frequency = "Once"
             THEN [outcome |-> "ok", jobs |-> js]
             ELSE IF task.frequency = "Daily"
             THEN [outcome |-> "ok",
                   jobs |-> Append(js, ScheduleNextRun(
                                Job(name, "days", NoDay, task.time), t))]
             ELSE IF task.frequency # "Weekly"
             THEN [outcome |-> "ok", jobs |-> js]
             \* day = schedule_info["day"]
             ELSE IF task.day = MissingKey
             THEN [outcome |-> "KeyError", jobs |-> js]
             ELSE IF v = "WIN"
             THEN [outcome |-> "ok",
                   jobs |-> Append(js, ScheduleNextRun(
                                Job(name, "weeks", task.day, task.time), t))]
             \* every().week.at(time_str): at() accepts no plain "weeks" unit
             ELSE [outcome |-> "ScheduleValueError", jobs |-> js]

(***************************************************************************)
(* State.                                                                  *)
(***************************************************************************)
VARIABLES
    variant,           \* which of the two programs runs
    app,               \* "off", "running" or "crashed" (the process)
    now,               \* the wall clock, in slots
    src,               \* the trees the user may pick as a source
    dst,               \* the trees the user may pick as a destination
    tasks,             \* BackupApp.tasks
    tasksFile,         \* tasks.json
    history,           \* BackupApp.history
    historyFile,       \* history.json
    log,               \* BackupApp.log
    logFile,           \* log.json
    task_source,       \* BackupApp.task_source (set by the task form)
    task_destination,  \* BackupApp.task_destination
    source,            \* BackupApp.source
    destination,       \* BackupApp.destination
    preview,           \* what the Preview Changes tab shows
    jobs,              \* SchedulerThread.scheduler.jobs
    sched,             \* the SchedulerThread: its flag and where its loop is
    threads,           \* every BackupThread created so far, oldest first
    events,            \* the signals the controller has not handled yet
    progress_bar       \* the value last given to progress_bar.setValue

fsVars == <<src, dst>>
storeVars == <<tasks, tasksFile, history, historyFile, log, logFile>>
formVars == <<task_source, task_destination>>
pathVars == <<source, destination, preview>>
schedVars == <<jobs, sched>>
execVars == <<threads, events, progress_bar>>
vars == <<variant, app, now, fsVars, storeVars, formVars, pathVars,
          schedVars, execVars>>

(***************************************************************************)
(* BackupThread: the record of one run and the signals it emits.           *)
(***************************************************************************)
NoResult == [date |-> 0, copied_files |-> 0, modified_files |-> 0,
             copied_folders |-> 0, modified_folders |-> 0,
             source |-> "", destination |-> "", errors |-> << >>]
ProgressEvent(r, v) == [kind |-> "progress", run |-> r, value |-> v, result |-> NoResult]
FinishedEvent(r, res) == [kind |-> "finished", run |-> r, value |-> 0, result |-> res]
ErrorEvent(r) == [kind |-> "error", run |-> r, value |-> 0, result |-> NoResult]
\* f"Error copying {source_file} to {dest_file}: {str(e)}"
CopyError(s, d, f) == [source_file |-> <<s, f>>, dest_file |-> <<d, f>>]

\* BackupThread.__init__
NewThread(s, d) ==
    [source |-> s, destination |-> d, error_log |-> << >>,
     pc |-> "start", total_files |-> 0, copied_files |-> 0,
     copied_files_list |-> << >>, modified_files_list |-> << >>,
     copied_folders_list |-> << >>, modified_folders_list |-> << >>,
     dirs |-> << >>, cur |-> RootDir, files |-> << >>,
     emitted |-> << >>]   \* every signal the run has emitted so far

\* the tree a path names; a path the model has no tree for does not exist
SrcTree(p) == IF p \in SrcPaths THEN src[p] ELSE NoTree
DstTree(p) == IF p \in DstPaths THEN dst[p] ELSE NoTree

\* (mutant) created folders are counted among the copied files
ResultOfCountingFolders(th, t) ==
    [date |-> t,
     copied_files |-> Len(th.copied_files_list) + Len(th.copied_folders_list),
     modified_files |-> Len(th.modified_files_list),
     copied_folders |-> Len(th.copied_folders_list),
     modified_folders |-> Len(th.modified_folders_list),
     source |-> th.source, destination |-> th.destination,
     errors |-> th.error_log]
\* (mutant) the result names the directories the controller holds now
ResultOfCurrentPaths(th, t) ==
    [date |-> t,
     copied_files |-> Len(th.copied_files_list),
     modified_files |-> Len(th.modified_files_list),
     copied_folders |-> Len(th.copied_folders_list),
     modified_folders |-> Len(th.modified_folders_list),
     source |-> source, destination |-> destination,
     errors |-> th.error_log]
\* the result dictionary of lines 81-90
ResultOf(th, t) ==
    [date |-> t,
     copied_files |-> Len(th.copied_files_list),
     modified_files |-> Len(th.modified_files_list),
     copied_folders |-> Len(th.copied_folders_list),
     modified_folders |-> Len(th.modified_folders_list),
     source |-> th.source, destination |-> th.destination,
     errors |-> th.error_log]
\* (mutant) the percentage is taken before the file is counted
ProgressBeforeCount(copied, total) == ((copied - 1) * 100) \div total
\* progress = int((copied_files / total_files) * 100); for fewer than 50
\* files the floating-point value truncates to the exact quotient
Progress(copied, total) == (copied * 100) \div total

\* where the walk goes once the current directory has no file left
AfterFiles(th) == IF th.dirs = << >> THEN "result" ELSE "dir"

(***************************************************************************)
(* BackupThread.run, one step per system call group.  Every step belongs   *)
(* to the run r (an index into threads).                                   *)
(***************************************************************************)
\* signal.emit(...): the run's own record of it
Emitting(th, e) == [th EXCEPT !.emitted = Append(@, e)]
\* (mutant) the outer except clause swallows the exception
FatalSilent(r, th) ==
    /\ threads' = [threads EXCEPT ![r] = [th EXCEPT !.pc = "done"]]
    /\ UNCHANGED <<events, dst>>
\* (mutant) the outer except clause reports what the run has done so far
FatalWithResult(r, th) ==
    /\ threads' = [threads EXCEPT ![r] =
           Emitting([th EXCEPT !.pc = "done"], FinishedEvent(r, ResultOf(th, now)))]
    /\ events' = Append(events, FinishedEvent(r, ResultOf(th, now)))
    /\ UNCHANGED dst
\* the outer `except Exception`: error_occurred.emit and the run is over
Fatal(r, th) ==
    /\ threads' = [threads EXCEPT ![r] = Emitting([th EXCEPT !.pc = "done"], ErrorEvent(r))]
    /\ events' = Append(events, ErrorEvent(r))
    /\ UNCHANGED dst

\* line 46: the check only BackupBanana.py makes
DestinationChecked(v, dtree) == v = "WIN" => dtree.exists

\* lines 44-54: the destination check and total_files
ThreadStart(r) ==
    /\ app = "running"
    /\ r \in DOMAIN threads
    /\ threads[r].pc = "start"
    /\ LET th == threads[r]
           stree == SrcTree(th.source)
       IN  IF ~DestinationChecked(variant, DstTree(th.destination))
           THEN Fatal(r, th)
           ELSE /\ threads' = [threads EXCEPT ![r] =
                       [th EXCEPT !.total_files = TotalFiles(stree),
                                  !.dirs = WalkDirs(stree),
                                  !.pc = IF WalkDirs(stree) = << >>
                                         THEN "result" ELSE "dir"]]
                /\ UNCHANGED <<events, dst>>
    /\ UNCHANGED <<variant, app, now, src, storeVars, formVars, pathVars,
                   schedVars, progress_bar>>

\* the run record once the walk has entered directory d and listed its files
EnterDir(th, stree, d) ==
    LET fs == FilesIn(stree, d)
        th1 == [th EXCEPT !.files = fs]
    IN  [th1 EXCEPT !.pc = IF fs = << >> THEN AfterFiles(th1) ELSE "file"]

\* lines 56-59 and 62-63: the next directory of the walk
ThreadDir(r) ==
    /\ app = "running"
    /\ r \in DOMAIN threads
    /\ threads[r].pc = "dir"
    /\ LET th == threads[r]
           d == Head(th.dirs)
           th1 == [th EXCEPT !.cur = d, !.dirs = Tail(th.dirs)]
       IN  threads' = [threads EXCEPT ![r] =
               IF ~DirExists(DstTree(th.destination), d)
               THEN [th1 EXCEPT !.pc = "mkdir"]
               ELSE EnterDir([th1 EXCEPT !.modified_folders_list = Append(@, d)],
                             SrcTree(th.source), d)]
    /\ UNCHANGED <<variant, app, now, fsVars, storeVars, formVars, pathVars,
                   schedVars, events, progress_bar>>

\* (mutant) only the destination root is created
MakeDirsRootOnly(tree, d) == [tree EXCEPT !.exists = TRUE]
\* os.makedirs(dest_path): the directory and every missing parent
MakeDirs(tree, d) ==
    [tree EXCEPT !.exists = TRUE,
                 !.dirs = IF d = RootDir THEN @ ELSE @ \cup {d}]

\* lines 60-61.  ok = FALSE: the operating system refuses (permissions, a
\* full or read-only volume).  A directory that appeared since line 59 makes
\* makedirs raise FileExistsError.
ThreadMkdir(r, ok) ==
    /\ app = "running"
    /\ r \in DOMAIN threads
    /\ threads[r].pc = "mkdir"
    /\ LET th == threads[r]
           d == th.cur
       IN  IF DirExists(DstTree(th.destination), d) \/ ~ok
           THEN Fatal(r, th)
           ELSE /\ dst' = [dst EXCEPT ![th.destination] = MakeDirs(@, d)]
                /\ threads' = [threads EXCEPT ![r] =
                       EnterDir([th EXCEPT !.copied_folders_list = Append(@, d)],
                                SrcTree(th.source), d)]
                /\ UNCHANGED events
    /\ UNCHANGED <<variant, app, now, src, storeVars, formVars, pathVars,
                   schedVars, progress_bar>>

\* (mutant) every file found at the destination counts as modified
ClassifyAnyExisting(th, stree, dtree, f) ==
    IF ~FileExists(dtree, f)
    THEN [th EXCEPT !.copied_files_list = Append(@, f)]
    ELSE [th EXCEPT !.modified_files_list = Append(@, f)]
\* lines 69-72: the file is put on one of the two lists, or on neither
Classify(th, stree, dtree, f) ==
    IF ~FileExists(dtree, f)
    THEN [th EXCEPT !.copied_files_list = Append(@, f)]
    ELSE IF Newer(stree.files[f], dtree.files[f])
    THEN [th EXCEPT !.modified_files_list = Append(@, f)]
    ELSE th

\* lines 65-72
ThreadFile(r) ==
    /\ app = "running"
    /\ r \in DOMAIN threads
    /\ threads[r].pc = "file"
    /\ LET th == threads[r]
           th1 == Classify(th, SrcTree(th.source), DstTree(th.destination),
                           Head(th.files))
       IN  threads' = [threads EXCEPT ![r] = [th1 EXCEPT !.pc = "copy"]]
    /\ UNCHANGED <<variant, app, now, fsVars, storeVars, formVars, pathVars,
                   schedVars, events, progress_bar>>

\* (mutant) a destination file that is not older is left alone
Copy2IfNewer(tree, sfile, f) ==
    IF tree.files[f].exists /\ tree.files[f].mtime >= sfile.mtime THEN tree
    ELSE [tree EXCEPT !.files[f] = File(sfile.mtime, sfile.data)]
\* shutil.copy2: content and modification time of the source file
Copy2(tree, sfile, f) == [tree EXCEPT !.files[f] = File(sfile.mtime, sfile.data)]
\* (mutant) a copy that broke off removes what it had written
PartialCopyUnlinks(tree, f) == [tree EXCEPT !.files[f] = NoFile]
\* a copy that broke off after the destination file was opened for writing
PartialCopy(tree, f) == [tree EXCEPT !.files[f] = File(NowMtime, 0)]
CopyOutcomes == {"ok", "failed", "partial"}
\* (mutant) the except clause ends the walk instead of going on
CopyFailedAborts(th, f) ==
    [th EXCEPT !.error_log = Append(@, CopyError(th.source, th.destination, f)),
               !.files = <<f>>, !.dirs = << >>]
\* lines 74-75: the per-file except clause
CopyFailed(th, f) ==
    [th EXCEPT !.error_log = Append(@, CopyError(th.source, th.destination, f))]
\* line 77, and the end of the `for file in files` body
FileDone(th) ==
    LET th1 == [th EXCEPT !.copied_files = @ + 1, !.files = Tail(@)]
    IN  [th1 EXCEPT !.pc = IF th1.files = << >> THEN AfterFiles(th1) ELSE "file"]

\* lines 73-79: the copy, the except clause, the progress signal.  A copy
\* into a directory that is not there can only fail.
ThreadCopy(r, outcome) ==
    /\ app = "running"
    /\ r \in DOMAIN threads
    /\ threads[r].pc = "copy"
    /\ LET th == threads[r]
           f == Head(th.files)
           stree == SrcTree(th.source)
           dtree == DstTree(th.destination)
           th1 == IF outcome = "ok" THEN th ELSE CopyFailed(th, f)
           th2 == FileDone(th1)
       IN  /\ outcome # "failed" => DirExists(dtree, DirOf(f))
           /\ dst' = IF outcome = "ok"
                     THEN [dst EXCEPT ![th.destination] = Copy2(@, stree.files[f], f)]
                     ELSE IF outcome = "partial"
                     THEN [dst EXCEPT ![th.destination] = PartialCopy(@, f)]
                     ELSE dst
           /\ IF th2.total_files = 0
              THEN \* ZeroDivisionError, outside the per-file try
                   /\ threads' = [threads EXCEPT ![r] =
                          Emitting([th2 EXCEPT !.pc = "done"], ErrorEvent(r))]
                   /\ events' = Append(events, ErrorEvent(r))
              ELSE LET e == ProgressEvent(r, Progress(th2.copied_files, th2.total_files))
                   IN  /\ threads' = [threads EXCEPT ![r] = Emitting(th2, e)]
                       /\ events' = Append(events, e)
    /\ UNCHANGED <<variant, app, now, src, storeVars, formVars, pathVars,
                   schedVars, progress_bar>>

\* lines 81-91
ThreadResult(r) ==
    /\ app = "running"
    /\ r \in DOMAIN threads
    /\ threads[r].pc = "result"
    /\ LET e == FinishedEvent(r, ResultOf(threads[r], now))
       IN  /\ threads' = [threads EXCEPT ![r] = Emitting([@ EXCEPT !.pc = "done"], e)]
           /\ events' = Append(events, e)
    /\ UNCHANGED <<variant, app, now, fsVars, storeVars, formVars, pathVars,
                   schedVars, progress_bar>>

\* a step of run r
ThreadStep(r) ==
    \/ ThreadStart(r)
    \/ ThreadDir(r)
    \/ \E ok \in BOOLEAN : ThreadMkdir(r, ok)
    \/ ThreadFile(r)
    \/ \E outcome \in CopyOutcomes : ThreadCopy(r, outcome)
    \/ ThreadResult(r)

(***************************************************************************)
(* The controller (BackupApp), on the main thread.                         *)
(***************************************************************************)
\* an exception that leaves a slot or a thread's run(): PyQt either aborts
\* the process or lets it go on, depending on its version
Unhandled == app' \in {"running", "crashed"}

\* BackupApp.is_destination_reachable
is_destination_reachable(d) == DstTree(d).exists
\* lines 575-596: whether start_backup gets as far as creating the thread
ShouldStart(v, s, d) ==
    /\ s # "" /\ d # ""
    /\ v = "WIN" => is_destination_reachable(d)
    /\ LET ch == get_changes(SrcTree(s), DstTree(d))
       IN  ch.new_files # << >> \/ ch.modified_files # << >>
\* lines 598-603: self.thread = BackupThread(...); self.thread.start()
StartedThreads(ths, s, d) == Append(ths, NewThread(s, d))

\* BackupApp.start_backup with self.source = s, self.destination = d
start_backup(s, d) ==
    IF ShouldStart(variant, s, d)
    THEN /\ Len(threads) < MaxRuns
         /\ progress_bar' = 0
         /\ threads' = StartedThreads(threads, s, d)
    ELSE UNCHANGED <<threads, progress_bar>>

\* the "Start Backup" button
StartBackup ==
    /\ app = "running"
    /\ start_backup(source, destination)
    /\ UNCHANGED <<variant, app, now, fsVars, storeVars, formVars, pathVars,
                   schedVars, events>>

\* BackupApp.__init__ and load_tasks.  While load_tasks runs, self.tasks is
\* still the empty dictionary of line 123; it is assigned when load_tasks
\* returns.
RECURSIVE LoadSchedule(_, _, _, _, _)
\* the loop of load_tasks over fileTasks, with self.tasks = ts: the jobs it
\* leaves and whether an exception left the loop
LoadSchedule(v, ts, fileTasks, js, t) ==
    IF fileTasks = << >> THEN [raised |-> FALSE, jobs |-> js]
    ELSE LET task == Head(fileTasks)
             r == schedule_task(v, ts, task.name, js, t)
         IN  \* task_info["schedule"]["frequency"], outside the try
             IF task.frequency = MissingFrequency
             THEN [raised |-> TRUE, jobs |-> js]
             ELSE IF task.frequency = "Once"
             THEN LoadSchedule(v, ts, Tail(fileTasks), js, t)
             ELSE IF r.outcome = "ok"
             THEN LoadSchedule(v, ts, Tail(fileTasks), r.jobs, t)
             \* BackupBanana.py catches KeyError and Exception and goes on
             ELSE IF v = "WIN"
             THEN LoadSchedule(v, ts, Tail(fileTasks), js, t)
             ELSE [raised |-> TRUE, jobs |-> js]
\* self.tasks at line 131, when load_tasks is called
TasksDuringLoad == << >>
\* a "schedule" that lacks one of its three keys
Malformed(t) ==
    t.frequency = MissingFrequency \/ t.time = MissingKey \/ t.day = MissingKey
\* update_tasks_list at the end of __init__: BackupBanana.py reads the three
\* keys of every task (lines 436-439), the other program reads none
ListRaises(v, ts) == v = "WIN" /\ \E i \in DOMAIN ts : Malformed(ts[i])
Startup ==
    /\ app = "off"
    /\ LET r == LoadSchedule(variant, TasksDuringLoad, tasksFile, << >>, now)
           raised == r.raised \/ ListRaises(variant, tasksFile)
       IN  /\ app' = IF raised THEN "crashed" ELSE "running"
           /\ jobs' = r.jobs
           /\ tasks' = IF raised THEN << >> ELSE tasksFile
    /\ history' = historyFile
    /\ log' = logFile
    /\ sched' = [sched EXCEPT !.running = TRUE, !.pc = "sleep"]
    /\ UNCHANGED <<variant, now, fsVars, tasksFile, historyFile, logFile,
                   formVars, pathVars, execVars>>

\* set_task_source / set_task_destination: the directory dialog's answer
SetTaskSource(p) ==
    /\ app = "running"
    /\ task_source' = p
    /\ UNCHANGED <<variant, app, now, fsVars, storeVars, task_destination,
                   pathVars, schedVars, execVars>>
SetTaskDestination(p) ==
    /\ app = "running"
    /\ task_destination' = p
    /\ UNCHANGED <<variant, app, now, fsVars, storeVars, task_source,
                   pathVars, schedVars, execVars>>

\* task_name_input.text().strip() in BackupBanana.py, .text() in the other
TaskNameOf(v, text) == IF v = "WIN" /\ text = " " THEN "" ELSE text
\* lines 369-375: the attributes task_source and task_destination exist
\* only once their dialogs have run; `or` reads the second only when the
\* first is not empty
ReadsUnset(s, d) == s = Unset \/ (s # "" /\ d = Unset)
\* lines 368-375: what save_task refuses
SaveRefused(name, s, d) == name = "" \/ s = "" \/ d = ""

\* BackupApp.save_task with the form holding text, frequency, time and day
SaveTask(text, frequency, time, day) ==
    /\ app = "running"
    /\ LET name == TaskNameOf(variant, text)
       IN  IF name # "" /\ ReadsUnset(task_source, task_destination)
           THEN \* AttributeError
                /\ Unhandled
                /\ UNCHANGED <<storeVars, jobs>>
           ELSE IF SaveRefused(name, task_source, task_destination)
           THEN UNCHANGED <<app, storeVars, jobs>>
           ELSE LET new_task == Task(name, task_source, task_destination,
                                     frequency, time,
                                     IF frequency = "Weekly" THEN day ELSE NoDay)
                    saved == SavedTasks(variant, tasks, new_task)
                    r == schedule_task(variant, saved, name, jobs, now)
                IN  /\ Len(r.jobs) <= MaxJobs
                    /\ tasks' = saved
                    /\ tasksFile' = saved
                    /\ jobs' = r.jobs
                    /\ IF r.outcome = "ok" THEN UNCHANGED app ELSE Unhandled
                    /\ UNCHANGED <<history, historyFile, log, logFile>>
    /\ UNCHANGED <<variant, now, fsVars, formVars, pathVars, sched,
                   execVars>>

RECURSIVE DelTasks(_, _)
\* the loop of delete_task over the selected names
DelTasks(ts, names) ==
    IF names = {} THEN ts
    ELSE LET n == CHOOSE x \in names : TRUE
         IN  DelTasks(DelTask(ts, n), names \ {n})
\* BackupApp.delete_task with the items of `names` selected in the list
DeleteTask(names) ==
    /\ app = "running"
    /\ names # {}
    /\ names \subseteq TaskNamesOf(tasks)
    /\ tasks' = DelTasks(tasks, names)
    /\ tasksFile' = tasks'
    /\ UNCHANGED <<variant, app, now, fsVars, history, historyFile, log, logFile,
                   formVars, pathVars, schedVars, execVars>>

\* reset_preview_layout: the tab shows its button only
NoPreview == [new_files |-> << >>, modified_files |-> << >>, total_size |-> -1]
\* set_source / set_destination
SetSource(p) ==
    /\ app = "running"
    /\ source' = p
    /\ preview' = NoPreview
    /\ UNCHANGED <<variant, app, now, fsVars, storeVars, formVars, destination,
                   schedVars, execVars>>
SetDestination(p) ==
    /\ app = "running"
    /\ destination' = p
    /\ preview' = NoPreview
    /\ UNCHANGED <<variant, app, now, fsVars, storeVars, formVars, source,
                   schedVars, execVars>>
\* (mutant) the diff creates the destination folders it finds missing
PreviewChangesCreatingFolders ==
    /\ app = "running"
    /\ source # "" /\ destination # ""
    /\ destination \in DstPaths
    /\ preview' = get_changes(SrcTree(source), DstTree(destination))
    /\ dst' = [dst EXCEPT ![destination] =
                  [@ EXCEPT !.exists = TRUE, !.dirs = @ \cup SrcTree(source).dirs]]
    /\ UNCHANGED <<variant, app, now, src, storeVars, formVars, source,
                   destination, schedVars, execVars>>
\* preview_changes: the "Load Preview Changes" button.  With a path unset it
\* shows a dialog and returns.
PreviewChanges ==
    /\ app = "running"
    /\ source # "" /\ destination # ""
    /\ preview' = get_changes(SrcTree(source), DstTree(destination))
    /\ UNCHANGED <<variant, app, now, fsVars, storeVars, formVars, source,
                   destination, schedVars, execVars>>
\* load_task: a click on an entry of the task list
LoadTask(name) ==
    /\ app = "running"
    /\ TaskIndex(tasks, name) # 0
    /\ source' = tasks[TaskIndex(tasks, name)].source
    /\ destination' = tasks[TaskIndex(tasks, name)].destination
    /\ preview' = NoPreview
    /\ UNCHANGED <<variant, app, now, fsVars, storeVars, formVars,
                   schedVars, execVars>>

\* (mutant) the newest record is put first
RecordedHistoryNewestFirst(h, result) == <<result>> \o h
\* BackupApp.record_history: the new history and log
RecordedHistory(h, result) == Append(h, result)
\* (mutant) every result goes to the log
RecordedLogAlways(l, result) == Append(l, result)
RecordedLog(l, result) == IF result.errors # << >> THEN Append(l, result) ELSE l

\* the controller handles the oldest signal in its event queue:
\* progress_update -> progress_bar.setValue, backup_finished ->
\* record_history, error_occurred -> handle_backup_error (a dialog; the
\* signal is connected in BackupBanana.py only)
Deliver ==
    /\ app = "running"
    /\ events # << >>
    /\ events' = Tail(events)
    /\ LET e == Head(events)
       IN  /\ progress_bar' = IF e.kind = "progress" THEN e.value ELSE progress_bar
           /\ IF e.kind = "finished"
              THEN /\ history' = RecordedHistory(history, e.result)
                   /\ historyFile' = history'
                   /\ log' = RecordedLog(log, e.result)
                   /\ logFile' = IF e.result.errors # << >> THEN log' ELSE logFile
              ELSE UNCHANGED <<history, historyFile, log, logFile>>
    /\ UNCHANGED <<variant, app, now, fsVars, tasks, tasksFile, formVars,
                   pathVars, schedVars, threads>>

(***************************************************************************)
(* The SchedulerThread: run_pending once per pass of its loop, each due    *)
(* job through run_scheduled_backup, statement by statement.               *)
(***************************************************************************)
NoTask == Task("", "", "", "Once", 0, NoDay)
\* Job.run after job_func returned: last_run and the next next_run
JobRan(js, i, t) ==
    [js EXCEPT ![i] = ScheduleNextRun([@ EXCEPT !.last_run = t], t)]
\* the loop after one job of run_pending is through
NextJob(sc) ==
    LET rest == Tail(sc.pending)
    IN  [sc EXCEPT !.pending = rest, !.task = NoTask,
                   !.pc = IF rest = << >> THEN "sleep" ELSE "lookup"]

\* (mutant) the loop does not test self.running
SchedTickIgnoringStop ==
    /\ app = "running"
    /\ sched.pc = "sleep"
    /\ Runnable(jobs, now) # << >>
    /\ sched' = [sched EXCEPT !.pending = Runnable(jobs, now), !.pc = "lookup"]
    /\ UNCHANGED <<variant, app, now, fsVars, storeVars, formVars, pathVars,
                   jobs, execVars>>
\* lines 103-104: a pass of the loop that finds jobs due
SchedTick ==
    /\ app = "running"
    /\ sched.pc = "sleep"
    /\ sched.running
    /\ Runnable(jobs, now) # << >>
    /\ sched' = [sched EXCEPT !.pending = Runnable(jobs, now), !.pc = "lookup"]
    /\ UNCHANGED <<variant, app, now, fsVars, storeVars, formVars, pathVars,
                   jobs, execVars>>

\* lines 103 and 107-108: stop() and the loop's test of self.running
SchedStop ==
    /\ app = "running"
    /\ sched.running
    /\ sched' = [sched EXCEPT !.running = FALSE]
    /\ UNCHANGED <<variant, app, now, fsVars, storeVars, formVars, pathVars,
                   jobs, execVars>>
SchedExit ==
    /\ app = "running"
    /\ sched.pc = "sleep"
    /\ ~sched.running
    /\ sched' = [sched EXCEPT !.pc = "stopped"]
    /\ UNCHANGED <<variant, app, now, fsVars, storeVars, formVars, pathVars,
                   jobs, execVars>>

\* what run_scheduled_backup does with a name that is not a key of
\* self.tasks: "return" (lines 514-517) or "KeyError" (self.tasks[task_name])
MissingTask(v) == IF v = "WIN" THEN "return" ELSE "KeyError"

\* lines 513-518: the job's task is looked up by name
JobLookup ==
    /\ app = "running"
    /\ sched.pc = "lookup"
    /\ LET i == Head(sched.pending)
           name == jobs[i].task
           k == TaskIndex(tasks, name)
       IN  IF k # 0
           THEN /\ sched' = [sched EXCEPT !.task = tasks[k], !.pc = "setsrc"]
                /\ UNCHANGED <<app, jobs>>
           ELSE IF MissingTask(variant) = "return"
           THEN /\ jobs' = JobRan(jobs, i, now)
                /\ sched' = NextJob(sched)
                /\ UNCHANGED app
           ELSE /\ sched' = [sched EXCEPT !.pc = "dead"]
                /\ Unhandled
                /\ UNCHANGED jobs
    /\ UNCHANGED <<variant, now, fsVars, storeVars, formVars, pathVars, execVars>>

\* line 519: self.source = task["source"]
JobSetSource ==
    /\ app = "running"
    /\ sched.pc = "setsrc"
    /\ source' = sched.task.source
    /\ sched' = [sched EXCEPT !.pc = "setdst"]
    /\ UNCHANGED <<variant, app, now, fsVars, storeVars, formVars, destination,
                   preview, jobs, execVars>>
\* line 520: self.destination = task["destination"]
JobSetDestination ==
    /\ app = "running"
    /\ sched.pc = "setdst"
    /\ destination' = sched.task.destination
    /\ sched' = [sched EXCEPT !.pc = "start"]
    /\ UNCHANGED <<variant, app, now, fsVars, storeVars, formVars, source,
                   preview, jobs, execVars>>
\* line 521: self.start_backup(), and the job is scheduled again
JobStart ==
    /\ app = "running"
    /\ sched.pc = "start"
    /\ start_backup(source, destination)
    /\ jobs' = JobRan(jobs, Head(sched.pending), now)
    /\ sched' = NextJob(sched)
    /\ UNCHANGED <<variant, app, now, fsVars, storeVars, formVars, pathVars,
                   events>>

\* the process ends (the tray menu's Exit, or app.exec_() returning) while
\* no backup is in flight: what was in memory is gone, the three files and
\* the trees stay.  `threads` keeps the record of the runs there have been.
Quit ==
    /\ app = "running"
    /\ \A r \in DOMAIN threads : threads[r].pc = "done"
    /\ events = << >>
    /\ app' = "off"
    /\ tasks' = << >> /\ history' = << >> /\ log' = << >>
    /\ task_source' = Unset /\ task_destination' = Unset
    /\ source' = "" /\ destination' = "" /\ preview' = NoPreview
    /\ jobs' = << >>
    /\ sched' = [running |-> FALSE, pc |-> "off", pending |-> << >>, task |-> NoTask]
    /\ progress_bar' = 0
    /\ UNCHANGED <<variant, now, fsVars, tasksFile, historyFile, logFile,
                   threads, events>>

(***************************************************************************)
(* The environment.                                                        *)
(***************************************************************************)
\* time passes, whether the program runs or not
Advance ==
    /\ now < MaxTime
    /\ now' = now + 1
    /\ UNCHANGED <<variant, app, fsVars, storeVars, formVars, pathVars,
                   schedVars, execVars>>
\* a destination becomes unreachable (a volume is unmounted)
DestVanish(p) ==
    /\ dst[p].exists
    /\ dst' = [dst EXCEPT ![p] = NoTree]
    /\ UNCHANGED <<variant, app, now, src, storeVars, formVars, pathVars,
                   schedVars, execVars>>
\* the user deletes a file of a source tree while no run is walking
SourceRemove(p, f) ==
    /\ FileExists(src[p], f)
    /\ \A r \in DOMAIN threads : threads[r].pc \in {"start", "done"}
    /\ src' = [src EXCEPT ![p].files[f] = NoFile]
    /\ UNCHANGED <<variant, app, now, dst, storeVars, formVars, pathVars,
                   schedVars, execVars>>

(***************************************************************************)
(* Initial states: the program has not been started yet.                   *)
(***************************************************************************)
\* the files a source tree may hold, and what a destination may hold of an
\* earlier state of them (other content, data 2)
SourceFiles == {NoFile} \cup {File(m, 1) : m \in 1..MaxMtime}
DestFiles == {NoFile} \cup {File(m, 2) : m \in 1..MaxMtime}
Trees(files) ==
    {t \in [exists : BOOLEAN, dirs : SUBSET Subdirs, files : [FileIds -> files]] :
        WellFormedTree(t)}
\* an existing directory with nothing in it
EmptyTree == [NoTree EXCEPT !.exists = TRUE]
\* a tree with file 1 only
OneFileTree == [EmptyTree EXCEPT !.files[1] = File(1, 1)]

\* everything but the file system, the persisted tasks and the variant
InitProcess ==
    /\ app = "off"
    /\ now = 0
    /\ tasks = << >>
    /\ history = << >> /\ historyFile = << >>
    /\ log = << >> /\ logFile = << >>
    /\ task_source = Unset /\ task_destination = Unset
    /\ source = "" /\ destination = "" /\ preview = NoPreview
    /\ jobs = << >>
    /\ sched = [running |-> FALSE, pc |-> "off", pending |-> << >>, task |-> NoTask]
    /\ threads = << >>
    /\ events = << >>
    /\ progress_bar = 0

(***************************************************************************)
(* SpecExec: manual backups of S1 into D1, over small pairs of trees.  Up   *)
(* to MaxRuns runs, one after the other or at the same time.               *)
(***************************************************************************)
\* source trees with every sub-directory and any of the files, all of them
\* last modified at MaxMtime
ExecSources ==
    {t \in Trees(SourceFiles) :
        t.dirs = Subdirs /\ \A f \in FileIds : t.files[f].mtime \in {0, MaxMtime}}
InitExec ==
    /\ variant \in Variants
    /\ InitProcess
    /\ tasksFile = << >>
    /\ \E s \in ExecSources :
           src = [p \in SrcPaths |-> IF p = "S1" THEN s ELSE NoTree]
    /\ \E d \in Trees(DestFiles) :
           dst = [p \in DstPaths |-> IF p = "D1" THEN d ELSE NoTree]
NextExec ==
    \/ Startup
    \/ SetSource("S1")
    \/ SetDestination("D1")
    \/ StartBackup
    \/ \E r \in 1..MaxRuns : ThreadStep(r)
    \/ Deliver
SpecExec == InitExec /\ [][NextExec]_vars

(***************************************************************************)
(* SpecSched: the task store and the scheduler.  D1 already holds what S1  *)
(* holds, so a dispatched backup finds nothing to copy.  The loop polls    *)
(* once a second and a slot lasts much longer: while the loop runs, the    *)
(* clock leaves a slot only after the loop has served the jobs due in it.  *)
(***************************************************************************)
\* the HH:MM a task is given in this specification: the last of the day
InputTimes == {SlotsPerDay - 1}
\* the weekday a task is given in this specification: Tuesday
InputDays == {1}
SchedTasks(n) ==
    {Task(n, "S1", "D1", f, tm, dy) :
        f \in Frequencies, tm \in InputTimes, dy \in InputDays \cup {NoDay}}
\* what save_task can have written for one name
WellFormedTask(t) == (t.frequency = "Weekly") <=> (t.day # NoDay)
PersistedTasks(n) == {t \in SchedTasks(n) : WellFormedTask(t)}
PersistedFiles == {<< >>} \cup {<<t>> : t \in PersistedTasks("T1")}
InitSched ==
    /\ variant \in Variants
    /\ InitProcess
    /\ tasksFile \in PersistedFiles
    /\ src = [p \in SrcPaths |-> IF p = "S1" THEN OneFileTree ELSE NoTree]
    /\ dst = [p \in DstPaths |-> IF p = "D1" THEN OneFileTree ELSE NoTree]
LoopServing == app = "running" /\ sched.pc \in {"sleep", "lookup", "setsrc", "setdst", "start"}
                               /\ sched.running
AdvancePolled ==
    /\ LoopServing => sched.pc = "sleep" /\ Runnable(jobs, now) = << >>
    /\ Advance
NextSched ==
    \/ Startup
    \/ SetTaskSource("S1")
    \/ SetTaskDestination("D1")
    \/ \E n \in TaskNames, f \in Frequencies, tm \in InputTimes, dy \in InputDays :
           SaveTask(n, f, tm, dy)
    \/ \E names \in SUBSET TaskNames : DeleteTask(names)
    \/ SchedTick
    \/ JobLookup
    \/ JobSetSource
    \/ JobSetDestination
    \/ JobStart
    \/ AdvancePolled
SpecSched == InitSched /\ [][NextSched]_vars

(***************************************************************************)
(* SpecExecFair: SpecExec from one source tree, with a destination that    *)
(* may vanish, and with every started thread scheduled again and again.    *)
(***************************************************************************)
\* a source tree with every sub-directory and file 1 only
SmallSource == [EmptyTree EXCEPT !.dirs = Subdirs, !.files[1] = File(MaxMtime, 1)]
InitExecFair ==
    /\ variant \in Variants
    /\ InitProcess
    /\ tasksFile = << >>
    /\ src = [p \in SrcPaths |-> IF p = "S1" THEN SmallSource ELSE NoTree]
    /\ \E d \in {NoTree, EmptyTree} :
           dst = [p \in DstPaths |-> IF p = "D1" THEN d ELSE NoTree]
NextExecFair ==
    \/ NextExec
    \/ DestVanish("D1")
SpecExecFair ==
    /\ InitExecFair
    /\ [][NextExecFair]_vars
    /\ \A r \in 1..MaxRuns : WF_vars(ThreadStep(r))

(***************************************************************************)
(* SpecDiff: the diff pass of start_backup over every pair of small trees, *)
(* with files of any modification time and size at both ends, up to the    *)
(* moment the BackupThread is created.                                     *)
(***************************************************************************)
DiffFiles == {NoFile} \cup {File(m, d) : m \in 1..MaxMtime, d \in 1..MaxSize}
InitDiff ==
    /\ variant \in Variants
    /\ InitProcess
    /\ tasksFile = << >>
    /\ \E s \in Trees(DiffFiles) :
           src = [p \in SrcPaths |-> IF p = "S1" THEN s ELSE NoTree]
    /\ \E d \in Trees(DiffFiles) :
           dst = [p \in DstPaths |-> IF p = "D1" THEN d ELSE NoTree]
NextDiff ==
    \/ Startup
    \/ SetSource("S1")
    \/ SetDestination("D1")
    \/ StartBackup
SpecDiff == InitDiff /\ [][NextDiff]_vars

(***************************************************************************)
(* SpecDispatch: scheduled dispatches that find something to copy, while   *)
(* the user edits the task (its source) and picks a source on the main     *)
(* tab.  Both sources hold a file the destination lacks.  The specification *)
(* follows a dispatch up to the creation of its BackupThread.              *)
(***************************************************************************)
InitDispatch ==
    /\ variant \in Variants
    /\ InitProcess
    /\ tasksFile = << >>
    /\ src = [p \in SrcPaths |-> OneFileTree]
    /\ dst = [p \in DstPaths |-> IF p = "D1" THEN EmptyTree ELSE NoTree]
NextDispatch ==
    \/ Startup
    \/ \E p \in SrcPaths : SetTaskSource(p)
    \/ SetTaskDestination("D1")
    \/ \E tm \in InputTimes, dy \in InputDays : SaveTask("T1", "Daily", tm, dy)
    \/ \E p \in SrcPaths : SetSource(p)
    \/ SchedTick
    \/ JobLookup
    \/ JobSetSource
    \/ JobSetDestination
    \/ JobStart
    \/ AdvancePolled
SpecDispatch == InitDispatch /\ [][NextDispatch]_vars

(***************************************************************************)
(* SpecStore: the three stores over sessions of the program.  The user     *)
(* saves and deletes the task T1, runs manual backups of a one-file tree   *)
(* whose copy may fail, quits and starts again.  The clock stands still.   *)
(***************************************************************************)
\* the frequencies the user picks in this specification
StoreFrequencies == {"Once", "Daily"}
InitStore ==
    /\ variant \in Variants
    /\ InitProcess
    /\ tasksFile = << >>
    /\ src = [p \in SrcPaths |-> IF p = "S1" THEN SmallSource ELSE NoTree]
    /\ dst = [p \in DstPaths |-> IF p = "D1" THEN EmptyTree ELSE NoTree]
NextStore ==
    \/ Startup
    \/ Quit
    \/ SetTaskSource("S1")
    \/ SetTaskDestination("D1")
    \/ \E f \in StoreFrequencies, tm \in InputTimes, dy \in InputDays :
           SaveTask("T1", f, tm, dy)
    \/ DeleteTask({"T1"})
    \/ SetSource("S1")
    \/ SetDestination("D1")
    \/ StartBackup
    \/ \E r \in 1..MaxRuns : ThreadStep(r)
    \/ Deliver
SpecStore == InitStore /\ [][NextStore]_vars

(***************************************************************************)
(* SpecStop: the scheduler loop with stop().  The task T1 is saved as a    *)
(* Daily task, its jobs fire on the first day and start backups of a       *)
(* one-file tree; stop() may be called at any moment.  The scheduler       *)
(* thread and every started BackupThread keep being scheduled.             *)
(***************************************************************************)
\* the clock within the first day
AdvanceFirstDay ==
    /\ now < SlotsPerDay - 1
    /\ AdvancePolled
\* a step of the SchedulerThread
SchedulerStep ==
    \/ SchedTick
    \/ SchedExit
    \/ JobLookup
    \/ JobSetSource
    \/ JobSetDestination
    \/ JobStart
NextStop ==
    \/ Startup
    \/ SetTaskSource("S1")
    \/ SetTaskDestination("D1")
    \/ \E tm \in InputTimes, dy \in InputDays : SaveTask("T1", "Daily", tm, dy)
    \/ SchedulerStep
    \/ SchedStop
    \/ AdvanceFirstDay
    \/ \E r \in 1..MaxRuns : ThreadStep(r)
    \/ Deliver
SpecStop ==
    /\ InitStore
    /\ [][NextStop]_vars
    /\ WF_vars(SchedulerStep)
    /\ \A r \in 1..MaxRuns : WF_vars(ThreadStep(r))

(***************************************************************************)
(* SpecPrune: SpecExec with a user who deletes files of the source between *)
(* the runs.                                                               *)
(***************************************************************************)
\* the source tree with every sub-directory and every file
FullSource ==
    [exists |-> TRUE, dirs |-> Subdirs, files |-> [f \in FileIds |-> File(MaxMtime, 1)]]
\* an earlier state of the full source: every file, older and other content
OldMirror ==
    [exists |-> TRUE, dirs |-> Subdirs, files |-> [f \in FileIds |-> File(1, 2)]]
PruneDests == {EmptyTree, OldMirror}
InitPrune ==
    /\ variant \in Variants
    /\ InitProcess
    /\ tasksFile = << >>
    /\ src = [p \in SrcPaths |-> IF p = "S1" THEN FullSource ELSE NoTree]
    /\ \E d \in PruneDests :
           dst = [p \in DstPaths |-> IF p = "D1" THEN d ELSE NoTree]
NextPrune ==
    \/ NextExec
    \/ \E f \in FileIds : SourceRemove("S1", f)
SpecPrune == InitPrune /\ [][NextPrune]_vars

(***************************************************************************)
(* SpecLoad: starts of the program over a tasks.json with up to two tasks, *)
(* each of which may lack a key of its schedule; the program is quit and   *)
(* started again while time passes.                                        *)
(***************************************************************************)
LoadTasks(n) ==
    {Task(n, "S1", "D1", f, tm, dy) :
        f \in Frequencies \cup {MissingFrequency},
        tm \in InputTimes \cup {MissingKey},
        dy \in InputDays \cup {NoDay, MissingKey}}
\* what save_task writes, or that with keys removed
LoadableTask(t) ==
    /\ t.frequency = "Weekly" => t.day # NoDay
    /\ t.frequency \in {"Once", "Daily"} => t.day \in {NoDay, MissingKey}
LoadFiles ==
    {<< >>}
        \cup {<<t>> : t \in {x \in LoadTasks("T1") : LoadableTask(x)}}
        \cup {<<t, u>> : t \in {x \in LoadTasks("T1") : LoadableTask(x)},
                         u \in {x \in LoadTasks("T2") : LoadableTask(x)}}
InitLoad ==
    /\ variant \in Variants
    /\ InitProcess
    /\ tasksFile \in LoadFiles
    /\ src = [p \in SrcPaths |-> IF p = "S1" THEN OneFileTree ELSE NoTree]
    /\ dst = [p \in DstPaths |-> IF p = "D1" THEN OneFileTree ELSE NoTree]
\* time passes within the first day
AdvanceDay ==
    /\ now < SlotsPerDay - 1
    /\ Advance
NextLoad ==
    \/ Startup
    \/ Quit
    \/ AdvanceDay
SpecLoad == InitLoad /\ [][NextLoad]_vars

(***************************************************************************)
(* SpecPreview: SpecStore with a user who also asks for the preview of the *)
(* changes, before, between and during the runs.                           *)
(***************************************************************************)
NextPreview ==
    \/ NextStore
    \/ PreviewChanges
SpecPreview == InitStore /\ [][NextPreview]_vars

(***************************************************************************)
(* SpecSave: the Scheduled Tasks form with everything a user can leave in  *)
(* it: a name that is empty, blank or T1, and directory dialogs that were  *)
(* never opened, were cancelled (the empty string) or gave a directory.    *)
(* The clock stands still.                                                 *)
(***************************************************************************)
\* what task_name_input.text() can be in this specification
SaveTexts == {"", " ", "T1"}
\* QFileDialog.getExistingDirectory: "" when the dialog is cancelled
DialogSources == {"", "S1"}
DialogDestinations == {"", "D1"}
NextSave ==
    \/ Startup
    \/ Quit
    \/ \E p \in DialogSources : SetTaskSource(p)
    \/ \E p \in DialogDestinations : SetTaskDestination(p)
    \/ \E text \in SaveTexts, f \in Frequencies, tm \in InputTimes, dy \in InputDays :
           SaveTask(text, f, tm, dy)
    \/ \E names \in SUBSET {" ", "T1"} : DeleteTask(names)
SpecSave == InitStore /\ [][NextSave]_vars

(***************************************************************************)
(* SpecCapture: backups between two sources and two destinations.  Both    *)
(* sources hold every sub-directory and file 1, with different content.    *)
(* tasks.json holds the task T1 (S2 into D2, Once).  While runs are in     *)
(* flight the user picks other directories on the main tab and loads T1.   *)
(***************************************************************************)
\* file 1 as the second source holds it
OtherSource == [SmallSource EXCEPT !.files[1] = File(MaxMtime, 2)]
CaptureTask == Task("T1", "S2", "D2", "Once", SlotsPerDay - 1, NoDay)
InitCapture ==
    /\ variant \in Variants
    /\ InitProcess
    /\ tasksFile = <<CaptureTask>>
    /\ src = [p \in SrcPaths |-> IF p = "S1" THEN SmallSource ELSE OtherSource]
    /\ dst = [p \in DstPaths |-> EmptyTree]
NextCapture ==
    \/ Startup
    \/ \E p \in SrcPaths : SetSource(p)
    \/ \E p \in DstPaths : SetDestination(p)
    \/ LoadTask("T1")
    \/ StartBackup
    \/ \E r \in 1..MaxRuns : ThreadStep(r)
    \/ Deliver
SpecCapture == InitCapture /\ [][NextCapture]_vars

(***************************************************************************)
(* What the claims speak about.                                            *)
(***************************************************************************)
Runs == DOMAIN threads
IsTerminal(e) == e.kind \in {"finished", "error"}
IsFinished(e) == e.kind = "finished"
IsProgress(e) == e.kind = "progress"
Terminals(th) == SelectSeq(th.emitted, IsTerminal)
ProgressOf(th) == SelectSeq(th.emitted, IsProgress)
HasResult(th) == \E i \in DOMAIN th.emitted : th.emitted[i].kind = "finished"
HasFatal(th) == \E i \in DOMAIN th.emitted : th.emitted[i].kind = "error"
\* the result a run has emitted
EmittedResult(th) == Terminals(th)[1].result
HasErrors(result) == result.errors # << >>
\* a run is active from its creation to its terminal signal
Active(th) == th.pc # "done"

(***************************************************************************)
(* C1.  A failure while copying one file never aborts the run: the failure *)
(* is appended to the error log, the walk goes on with the next file, no   *)
(* fatal error is emitted for it, and a run that emits its BackupResult    *)
(* has visited every file of the source and carries the whole error log.   *)
(***************************************************************************)
\* the step in which run r's copy of a file fails
CopyFails(r) ==
    /\ r \in Runs
    /\ threads[r].pc = "copy"
    /\ threads'[r].error_log # threads[r].error_log
FailureGoesOn(r) ==
    LET th == threads[r]
        f == Head(th.files)
        after == threads'[r]
    IN  /\ after.error_log = Append(th.error_log, CopyError(th.source, th.destination, f))
        /\ after.copied_files = th.copied_files + 1
        /\ after.files = Tail(th.files)
        /\ after.dirs = th.dirs
        /\ after.pc = IF after.files # << >> THEN "file"
                       ELSE IF after.dirs # << >> THEN "dir" ELSE "result"
        /\ ~HasFatal(after)
        /\ Len(after.emitted) = Len(th.emitted) + 1
        /\ after.emitted[Len(after.emitted)].kind = "progress"
ResultCoversWalk(th) ==
    /\ HasResult(th) =>
           /\ th.copied_files = TotalFiles(SrcTree(th.source))
           /\ th.files = << >> /\ th.dirs = << >>
           /\ EmittedResult(th).errors = th.error_log
           /\ ~HasFatal(th)
    /\ (th.pc = "done" /\ ~HasFatal(th)) => HasResult(th)
C1_PerFileFailureIsolated ==
    /\ [][\A r \in 1..MaxRuns : CopyFails(r) => FailureGoesOn(r)]_vars
    /\ [](\A r \in Runs : ResultCoversWalk(threads[r]))
\* a run whose first copy failed, whose second succeeded, and which ended
\* with a BackupResult holding the one error
C1_Witness ==
    \E r \in Runs :
        LET th == threads[r]
        IN  /\ HasResult(th)
            /\ th.copied_files = 2
            /\ Len(th.error_log) = 1
            /\ th.error_log[1].source_file[2] = 1
            /\ dst[th.destination].files[2] = src[th.source].files[2]

(***************************************************************************)
(* C2.  Every started run eventually emits exactly one terminal event: a   *)
(* BackupResult or a fatal error, never both, and none before the run is   *)
(* over; a step that raises outside the per-file try (the destination      *)
(* check, os.makedirs) ends the run with the fatal error and no result.    *)
(***************************************************************************)
OneTerminal(th) ==
    /\ Len(Terminals(th)) <= 1
    /\ (th.pc = "done") <=> (Len(Terminals(th)) = 1)
    /\ ~(HasResult(th) /\ HasFatal(th))
\* the step in which run r leaves the destination check or os.makedirs by
\* an exception
RaisesOutsideFileScope(r) ==
    /\ r \in Runs
    /\ threads[r].pc \in {"start", "mkdir"}
    /\ threads'[r].pc = "done"
C2_ExactlyOneTerminalEvent ==
    /\ [](\A r \in Runs : OneTerminal(threads[r]))
    /\ [][\A r \in 1..MaxRuns : RaisesOutsideFileScope(r) =>
              (HasFatal(threads'[r]) /\ ~HasResult(threads'[r]))]_vars
    /\ \A r \in 1..MaxRuns :
           (r \in Runs) ~> (r \in Runs /\ Len(Terminals(threads[r])) = 1)
\* one run ended with the fatal error, another with a BackupResult
C2_Witness ==
    \E r1, r2 \in Runs :
        /\ threads[r1].pc = "done" /\ HasFatal(threads[r1]) /\ ~HasResult(threads[r1])
        /\ threads[r2].pc = "done" /\ HasResult(threads[r2]) /\ ~HasFatal(threads[r2])

(***************************************************************************)
(* C3.  Every BackupResult a run has produced is in History as soon as the *)
(* controller has handled it (until then it waits in the event queue), and *)
(* Log is the subsequence of History of the results with errors.           *)
(***************************************************************************)
FinishedIn(evs) == SelectSeq(evs, IsFinished)
RECURSIVE SumOver(_, _)
SumOver(S, n) ==
    IF S = {} THEN 0
    ELSE LET r == CHOOSE x \in S : TRUE IN n[r] + SumOver(S \ {r}, n)
\* how many results the runs have emitted
Produced == SumOver(Runs, [r \in Runs |-> Len(FinishedIn(threads[r].emitted))])
C3_HistoryAndLog ==
    /\ log = SelectSeq(history, HasErrors)
    /\ Produced = Len(history) + Len(FinishedIn(events))
    /\ \A r \in Runs : HasResult(threads[r]) =>
           \/ EmittedResult(threads[r]) \in Range(history)
           \/ FinishedEvent(r, EmittedResult(threads[r])) \in Range(events)
\* two results recorded, the first with errors, the second without
C3_Witness ==
    /\ Len(history) = 2
    /\ HasErrors(history[1]) /\ ~HasErrors(history[2])
    /\ log = <<history[1]>>

(***************************************************************************)
(* C4.  No job of the scheduler belongs to a task whose current frequency  *)
(* is Once, and the scheduler never dispatches a backup for a Once task.   *)
(***************************************************************************)
\* the task the name n stands for now, NoTask when there is none
CurrentTask(n) == IF TaskIndex(tasks, n) = 0 THEN NoTask ELSE tasks[TaskIndex(tasks, n)]
IsTask(n) == TaskIndex(tasks, n) # 0
\* the run_scheduled_backup call in progress has found its task
Dispatching == sched.pc \in {"setsrc", "setdst", "start"}
C4_NoJobForOnceTask ==
    /\ \A i \in DOMAIN jobs :
           IsTask(jobs[i].task) => CurrentTask(jobs[i].task).frequency # "Once"
    /\ Dispatching => sched.task.frequency # "Once"

(***************************************************************************)
(* C5.  A Weekly task for weekday D at HH:MM is dispatched only at ticks   *)
(* on weekday D at or after HH:MM, and at most once per calendar week.     *)
(***************************************************************************)
\* the job run_pending is about to run
FiringJob == jobs[Head(sched.pending)]
\* some job of the task n has run in the calendar week of t
RanInWeek(n, t) ==
    \E i \in DOMAIN jobs :
        /\ jobs[i].task = n
        /\ jobs[i].last_run # NoRun
        /\ WeekOf(jobs[i].last_run) = WeekOf(t)
C5_WeeklyOnItsDayOncePerWeek ==
    (app = "running" /\ sched.pc = "lookup" /\ IsTask(FiringJob.task)
                         /\ CurrentTask(FiringJob.task).frequency = "Weekly") =>
        LET task == CurrentTask(FiringJob.task)
        IN  /\ Weekday(now) = task.day
            /\ TimeOfDay(now) >= task.time
            /\ ~RanInWeek(task.name, now)

(***************************************************************************)
(* C6.  After any sequence of saveTask calls the scheduler holds at most   *)
(* one job per task name, and that job is the one of the schedule saved    *)
(* last.                                                                   *)
(***************************************************************************)
JobsOf(n) == {i \in DOMAIN jobs : jobs[i].task = n}
\* the job triggers on the schedule of the task
JobFollows(job, task) ==
    /\ job.at_time = task.time
    /\ \/ task.frequency = "Daily" /\ job.unit = "days"
       \/ task.frequency = "Weekly" /\ job.unit = "weeks" /\ job.start_day = task.day
C6_SaveTaskReplacesJob ==
    \A n \in TaskNames :
        /\ Cardinality(JobsOf(n)) <= 1
        /\ IsTask(n) => \A i \in JobsOf(n) : JobFollows(jobs[i], CurrentTask(n))

(***************************************************************************)
(* C7.  When a job fires for a name that is no longer in the task store,   *)
(* no backup is started, no exception reaches the scheduler loop, and the  *)
(* loop goes on with the other due jobs or with its next pass.             *)
(***************************************************************************)
\* the step of run_scheduled_backup for a name that is not in self.tasks
FiresForDeletedTask ==
    /\ sched.pc = "lookup"
    /\ ~IsTask(FiringJob.task)
    /\ sched' # sched
C7_DeletedTaskDispatchIsNoOp ==
    [][FiresForDeletedTask =>
           /\ threads' = threads
           /\ app' = app
           /\ sched'.pending = Tail(sched.pending)
           /\ sched'.pc = IF sched'.pending = << >> THEN "sleep" ELSE "lookup"]_vars

(***************************************************************************)
(* C8.  Once startup has finished, every persisted task whose frequency is *)
(* Daily or Weekly has a job registered with the scheduler.                *)
(***************************************************************************)
StartupFinishes == app = "off" /\ app' # "off"
C8_StartupRegistersPersistedTasks ==
    [][StartupFinishes =>
           /\ app' = "running"
           /\ \A k \in DOMAIN tasksFile :
                  tasksFile[k].frequency # "Once" =>
                      \E i \in DOMAIN jobs' :
                          /\ jobs'[i].task = tasksFile[k].name
                          /\ JobFollows(jobs'[i], tasksFile[k])]_vars

(***************************************************************************)
(* C9.  At most one BackupThread is active at any time.                    *)
(***************************************************************************)
C9_AtMostOneActiveRun ==
    Cardinality({r \in Runs : Active(threads[r])}) <= 1

(***************************************************************************)
(* C10.  A run over a source tree with N >= 1 files emits one progress     *)
(* value per file it has processed, each within 0..100 and none smaller    *)
(* than the one before; when the run emits its BackupResult it has emitted *)
(* N of them and the last one is 100.                                      *)
(***************************************************************************)
NonDecreasing(vs) == \A i \in 1..(Len(vs) - 1) : vs[i].value <= vs[i + 1].value
ProgressContract(th) ==
    LET ps == ProgressOf(th)
        n == TotalFiles(SrcTree(th.source))
    IN  /\ Len(ps) = th.copied_files
        /\ \A i \in DOMAIN ps : ps[i].value \in 0..100
        /\ NonDecreasing(ps)
        /\ (HasResult(th) /\ n >= 1) => (Len(ps) = n /\ ps[Len(ps)].value = 100)
C10_MonotonicProgress == \A r \in Runs : ProgressContract(threads[r])
\* a finished run over two files, one of whose copies failed: 50, then 100
C10_Witness ==
    \E r \in Runs :
        /\ HasResult(threads[r])
        /\ Len(threads[r].error_log) = 1
        /\ Len(ProgressOf(threads[r])) = 2
        /\ ProgressOf(threads[r])[1].value = 50
        /\ ProgressOf(threads[r])[2].value = 100

(***************************************************************************)
(* C11.  If the destination root does not exist when a run starts, the run *)
(* fails with the fatal error before any action: nothing is created below  *)
(* or at the destination, no file is copied, no progress and no            *)
(* BackupResult is emitted.                                                *)
(***************************************************************************)
\* run r takes its first step while its destination root does not exist
StartsWithoutDestination(r) ==
    /\ r \in Runs
    /\ threads[r].pc = "start"
    /\ ~DstTree(threads[r].destination).exists
    /\ threads'[r] # threads[r]
C11_DestinationUnreachableIsFatal ==
    [][\A r \in 1..MaxRuns : StartsWithoutDestination(r) =>
           /\ threads'[r].pc = "done"
           /\ threads'[r].emitted = <<ErrorEvent(r)>>
           /\ dst' = dst]_vars

(***************************************************************************)
(* C12.  If in one run the copy of file F fails and every other copy       *)
(* succeeds, the BackupResult counts F neither in copied_files nor in      *)
(* modified_files, and its errors list has exactly one entry, for F.       *)
(***************************************************************************)
\* the file an entry of the errors list is about
FileOfError(err) == err.source_file[2]
OnlyFailedFileUncounted(th) ==
    (HasResult(th) /\ Len(th.error_log) = 1) =>
        LET F == FileOfError(th.error_log[1])
            res == EmittedResult(th)
        IN  /\ res.errors = <<CopyError(th.source, th.destination, F)>>
            /\ res.copied_files = Cardinality(Range(th.copied_files_list) \ {F})
            /\ res.modified_files = Cardinality(Range(th.modified_files_list) \ {F})
C12_FailedFileIsNotCounted == \A r \in Runs : OnlyFailedFileUncounted(threads[r])

(***************************************************************************)
(* C13.  Idempotence: once a run over a tree has ended with an empty       *)
(* errors list, the diff of that source and destination finds no new and   *)
(* no modified entry, so start_backup for them starts no thread.           *)
(***************************************************************************)
EndedClean(th) == HasResult(th) /\ EmittedResult(th).errors = << >>
NothingPending(s, d) ==
    LET ch == get_changes(SrcTree(s), DstTree(d))
    IN  ch.new_files = << >> /\ ch.modified_files = << >>
C13_SecondRunFindsNoChanges ==
    \A r \in Runs :
        EndedClean(threads[r]) =>
            /\ NothingPending(threads[r].source, threads[r].destination)
            /\ ~ShouldStart(variant, threads[r].source, threads[r].destination)
\* a run that created a directory, copied a new file and overwrote an older
\* one has ended without errors
C13_Witness ==
    \E r \in Runs :
        /\ EndedClean(threads[r])
        /\ threads[r].copied_folders_list # << >>
        /\ Len(threads[r].copied_files_list) = 1
        /\ Len(threads[r].modified_files_list) = 1

(***************************************************************************)
(* C14.  get_changes classifies every source file by the newer-wins rule:  *)
(* absent at the destination, new; present with a strictly greater source  *)
(* mtime, modified; otherwise left out; total_size is the sum of the sizes *)
(* of exactly the new and the modified files.                              *)
(***************************************************************************)
\* the files an os.walk of the tree meets
WalkedFiles(tree) == {f \in FileIds : FileExists(tree, f)}
AbsentAtDest(stree, dtree) ==
    {f \in WalkedFiles(stree) : ~(DirExists(dtree, DirOf(f)) /\ dtree.files[f].exists)}
StrictlyNewer(stree, dtree) ==
    {f \in WalkedFiles(stree) \ AbsentAtDest(stree, dtree) :
        stree.files[f].mtime > dtree.files[f].mtime}
IsFileEntry(e) == e.kind = "file"
DiffFollowsRule(stree, dtree) ==
    LET ch == get_changes(stree, dtree)
        newF == SelectSeq(ch.new_files, IsFileEntry)
        new == AbsentAtDest(stree, dtree)
        mod == StrictlyNewer(stree, dtree)
    IN  /\ {e.id : e \in Range(newF)} = new
        /\ Len(newF) = Cardinality(new)
        /\ Range(ch.modified_files) = mod
        /\ Len(ch.modified_files) = Cardinality(mod)
        /\ ch.total_size = SumOver(new \cup mod, [f \in FileIds |-> stree.files[f].data])
C14_DiffClassifiesByNewerWins ==
    \A p \in SrcPaths, q \in DstPaths : DiffFollowsRule(src[p], dst[q])
\* start_backup has found one new file of size 1 and one modified file of
\* size 2 and has created the thread
C14_Witness ==
    /\ threads # << >>
    /\ LET ch == get_changes(src["S1"], dst["D1"])
       IN  /\ ch.new_files = <<NewFile(1)>>
           /\ ch.modified_files = <<2>>
           /\ src["S1"].files[1].data = 1 /\ src["S1"].files[2].data = 2
           /\ ch.total_size = 3

(***************************************************************************)
(* C15.  start_backup creates a BackupThread only when source and          *)
(* destination are both non-empty, the destination is reachable and the    *)
(* diff reports at least one pending entry; and no result with zero copied *)
(* files and zero modified files is ever recorded in History.              *)
(***************************************************************************)
ThreadCreated == Len(threads') > Len(threads)
StartAllowed(s, d) ==
    /\ s # "" /\ d # ""
    /\ DstTree(d).exists
    /\ ~NothingPending(s, d)
ResultRecorded == Len(history') > Len(history)
EmptySuccess(result) == result.copied_files = 0 /\ result.modified_files = 0
C15_StartOnlyWithPendingChanges ==
    [][/\ ThreadCreated => StartAllowed(source, destination)
       /\ ResultRecorded => ~EmptySuccess(history'[Len(history')])]_vars

(***************************************************************************)
(* C16.  The run a scheduled dispatch starts uses the source and the       *)
(* destination the task store held under the job's name at the moment the  *)
(* job fired, not those of the time the job was registered.                *)
(***************************************************************************)
\* the start_backup call of run_scheduled_backup creates a thread
DispatchStarts ==
    /\ sched.pc = "start"
    /\ sched' # sched
    /\ ThreadCreated
FilesEqualMemory ==
    /\ tasksFile = tasks
    /\ historyFile = history
    /\ logFile = log
\* the program comes up and holds what the three files held
Reloaded ==
    /\ app' = "running"
    /\ tasks' = tasksFile /\ tasksFile' = tasksFile
    /\ history' = historyFile /\ historyFile' = historyFile
    /\ log' = logFile /\ logFile' = logFile
C17_PersistedEqualsMemory ==
    [][/\ app' = "running" => FilesEqualMemory'
       /\ StartupFinishes => Reloaded]_vars

(***************************************************************************)
(* C18.  Rename: after save_task under a name that was not in the task     *)
(* store, no task under another name with the same source, destination and *)
(* schedule remains in the store.                                          *)
(***************************************************************************)
\* save_task has put a task under the new name n
SavedUnderNewName(n) ==
    /\ app = "running"
    /\ ~IsTask(n)
    /\ TaskIndex(tasks', n) # 0
C18_RenameRemovesOldEntry ==
    [][\A n \in TaskNames : SavedUnderNewName(n) =>
           LET new == tasks'[TaskIndex(tasks', n)]
           IN  \A k \in DOMAIN tasks' :
                   tasks'[k].name # n => TaskInfo(tasks'[k]) # TaskInfo(new)]_vars

(***************************************************************************)
(* C19.  A Daily task for HH:MM is dispatched exactly once on each day on  *)
(* which the scheduler loop runs across HH:MM, never before HH:MM.         *)
(***************************************************************************)
\* some job of the task n has run on the day of t
RanOnDay(n, t) ==
    \E i \in DOMAIN jobs :
        /\ jobs[i].task = n
        /\ jobs[i].last_run # NoRun
        /\ DayOf(jobs[i].last_run) = DayOf(t)
IsDailyTask(n) == IsTask(n) /\ CurrentTask(n).frequency = "Daily"
C19_DailyOncePerDay ==
    /\ (app = "running" /\ sched.pc = "lookup" /\ IsDailyTask(FiringJob.task)) =>
           /\ TimeOfDay(now) >= CurrentTask(FiringJob.task).time
           /\ ~RanOnDay(FiringJob.task, now)
    /\ LoopServing =>
           \A i \in DOMAIN jobs :
               IsDailyTask(jobs[i].task) => DayOf(jobs[i].next_run) >= DayOf(now)

(***************************************************************************)
(* C20.  After stop() the scheduler loop eventually terminates; it begins  *)
(* no tick after the one in flight, so no job is dispatched on a later     *)
(* tick; and a backup run that was dispatched goes on to its terminal      *)
(* event.                                                                  *)
(***************************************************************************)
StopSignalled == app = "running" /\ sched.pc # "off" /\ ~sched.running
LoopOver == sched.pc \in {"stopped", "dead"} \/ app # "running"
\* the loop starts a pass of run_pending that finds due jobs
TickBegins == sched.pc = "sleep" /\ sched'.pc = "lookup"
C20_StopHaltsLoopNotRuns ==
    /\ StopSignalled ~> LoopOver
    /\ [][StopSignalled => ~TickBegins]_vars
    /\ [][sched.pc = "stopped" => sched' = sched]_vars
    /\ [][(StopSignalled /\ sched' # sched /\ sched.pc \in {"sleep", "stopped"})
              => threads' = threads]_vars
    /\ \A r \in 1..MaxRuns :
           (StopSignalled /\ r \in Runs)
               ~> (app # "running" \/ (r \in Runs /\ Len(Terminals(threads[r])) = 1))
\* the loop has ended while a run it dispatched is still in flight
C20_Witness ==
    /\ app = "running"
    /\ sched.pc = "stopped"
    /\ \E r \in Runs : Active(threads[r]) /\ threads[r].pc # "start"

(***************************************************************************)
(* C21.  No step removes a file or a directory from the destination: the   *)
(* set of paths under the destination never shrinks, also after files were *)
(* deleted from the source.                                                *)
(***************************************************************************)
\* the paths present in a tree: its root, its sub-directories, its files
PathsOf(tree) ==
    {<<"dir", d>> : d \in {x \in {RootDir} \cup Subdirs : DirExists(tree, x)}}
        \cup {<<"file", f>> : f \in {x \in FileIds : FileExists(tree, x)}}
C21_DestinationNeverShrinks ==
    [][\A p \in DstPaths : PathsOf(dst[p]) \subseteq PathsOf(dst'[p])]_vars
\* a run copied a file, the user deleted it from the source, a later run
\* walked the smaller source and ended, and the destination still holds it
C21_Witness ==
    /\ Len(threads) = 2
    /\ HasResult(threads[1]) /\ HasResult(threads[2])
    /\ threads[2].total_files < threads[1].total_files
    /\ \E f \in FileIds : FileExists(dst["D1"], f) /\ ~FileExists(src["S1"], f)
                          /\ dst["D1"].files[f].data = 1

(***************************************************************************)
(* C22.  When a run ends with a result whose errors list is empty, every   *)
(* file of the source tree is at the mirrored destination path with the    *)
(* content and the modification time of the source file.                   *)
(***************************************************************************)
Mirrored(stree, dtree) ==
    \A f \in WalkedFiles(stree) :
        /\ FileExists(dtree, f)
        /\ dtree.files[f].data = stree.files[f].data
        /\ dtree.files[f].mtime = stree.files[f].mtime
\* the step in which run r emits its result
EmitsResult(r) ==
    /\ r \in Runs
    /\ threads[r].pc = "result"
    /\ threads'[r].pc = "done"
C22_CleanRunMirrorsSource ==
    [][\A r \in Runs :
          (EmitsResult(r) /\ threads[r].error_log = << >>)
              => Mirrored(SrcTree(threads[r].source), DstTree(threads[r].destination))]_vars

(***************************************************************************)
(* C23.  A source directory whose mirrored destination directory is        *)
(* missing when the walk visits it is created and counted as a copied      *)
(* folder; a directory that is present when visited, as in a re-run after  *)
(* a run that created it, is counted as a modified folder and not as a     *)
(* copied folder.                                                          *)
(***************************************************************************)
\* run r visits directory d of its walk in this step
Visits(r, d) ==
    /\ r \in Runs
    /\ threads[r].pc = "dir"
    /\ Head(threads[r].dirs) = d
    /\ threads'[r] # threads[r]
\* run r creates directory d in this step
Creates(r, d) ==
    /\ r \in Runs
    /\ threads[r].pc = "mkdir"
    /\ threads[r].cur = d
    /\ threads'[r] # threads[r]
    /\ threads'[r].pc # "done"
CopiedFolders(th) == Range(th.copied_folders_list)
ModifiedFolders(th) == Range(th.modified_folders_list)
\* some run has created d in the destination of run r
CreatedBefore(r, d) ==
    \E q \in Runs : /\ threads[q].destination = threads[r].destination
                    /\ d \in CopiedFolders(threads[q])
FolderStep(r, d) ==
    /\ (Visits(r, d) /\ ~DirExists(DstTree(threads[r].destination), d))
           => /\ threads'[r].pc = "mkdir"
              /\ d \notin ModifiedFolders(threads'[r])
    /\ Creates(r, d)
           => /\ ~DirExists(DstTree(threads[r].destination), d)
              /\ DirExists(dst'[threads[r].destination], d)
              /\ threads'[r].copied_folders_list =
                     Append(threads[r].copied_folders_list, d)
              /\ d \notin ModifiedFolders(threads'[r])
    /\ (Visits(r, d) /\ (DirExists(DstTree(threads[r].destination), d)
                         \/ CreatedBefore(r, d)))
           => /\ threads'[r].modified_folders_list =
                     Append(threads[r].modified_folders_list, d)
              /\ d \notin CopiedFolders(threads'[r])
FolderCounts(th) ==
    HasResult(th) =>
        /\ EmittedResult(th).copied_folders = Cardinality(CopiedFolders(th))
        /\ EmittedResult(th).modified_folders = Cardinality(ModifiedFolders(th))
        /\ CopiedFolders(th) \cap ModifiedFolders(th) = {}
        /\ CopiedFolders(th) \cup ModifiedFolders(th)
               = Range(WalkDirs(SrcTree(th.source)))
C23_FolderClassification ==
    /\ [][\A r \in 1..MaxRuns, d \in {RootDir} \cup Subdirs : FolderStep(r, d)]_vars
    /\ [](\A r \in Runs : FolderCounts(threads[r]))
\* a run created a directory and counted it as copied; a second run found
\* it present and counted it as modified
C23_Witness ==
    /\ Len(threads) = 2
    /\ HasResult(threads[1]) /\ HasResult(threads[2])
    /\ \E d \in Subdirs :
           /\ d \in CopiedFolders(threads[1])
           /\ EmittedResult(threads[1]).copied_folders >= 1
           /\ d \in ModifiedFolders(threads[2])
           /\ d \notin CopiedFolders(threads[2])
           /\ EmittedResult(threads[2]).copied_folders = 0

(***************************************************************************)
(* C24.  History is append-only: no step removes, reorders or alters a     *)
(* record it already holds.  Every earlier history.json is a prefix of the *)
(* current one, self.history only grows at its end while the program runs, *)
(* and a start of the program brings back every record.                    *)
(***************************************************************************)
PrefixOf(s, t) == Len(s) <= Len(t) /\ SubSeq(t, 1, Len(s)) = s
C24_HistoryAppendOnly ==
    /\ [][PrefixOf(historyFile, historyFile')]_vars
    /\ [][(app = "running" /\ app' = "running") => PrefixOf(history, history')]_vars
    /\ [][(app = "off" /\ app' # "off") => history' = historyFile]_vars
    /\ [](app = "running" => history = historyFile)
\* a session has ended with two records in history.json
C24_Witness ==
    /\ app = "off"
    /\ Len(historyFile) = 2
    /\ historyFile[1] # historyFile[2]

(***************************************************************************)
(* C25.  A run over a source tree without files emits no progress signal   *)
(* and raises no division fault: it can only end fatally where it tests or *)
(* creates a destination directory, and otherwise it ends with one result  *)
(* whose copied_files and modified_files are 0.                            *)
(***************************************************************************)
ZeroFiles(th) == WalkedFiles(SrcTree(th.source)) = {}
NoProgress(th) == \A i \in DOMAIN th.emitted : th.emitted[i].kind # "progress"
\* run r ends with the fatal error in this step
TurnsFatal(r) ==
    /\ r \in Runs
    /\ ~HasFatal(threads[r])
    /\ HasFatal(threads'[r])
ZeroFileRun(th) ==
    ZeroFiles(th) =>
        /\ NoProgress(th)
        /\ th.pc \notin {"file", "copy"}
        /\ (th.pc = "done" /\ ~HasFatal(th)) =>
               /\ Len(th.emitted) = 1
               /\ HasResult(th)
               /\ EmittedResult(th).copied_files = 0
               /\ EmittedResult(th).modified_files = 0
C25_ZeroFileRunCompletes ==
    /\ [](\A r \in Runs : ZeroFileRun(threads[r]))
    /\ [][\A r \in 1..MaxRuns :
              (TurnsFatal(r) /\ ZeroFiles(threads[r]))
                  => threads[r].pc \in {"start", "mkdir"}]_vars
\* a run over a source without files has created a folder and ended with
\* its result
C25_Witness ==
    \E r \in Runs :
        /\ ZeroFiles(threads[r])
        /\ threads[r].pc = "done"
        /\ HasResult(threads[r])
        /\ EmittedResult(threads[r]).copied_folders >= 1
        /\ SrcTree(threads[r].source).dirs # {}

(***************************************************************************)
(* C26.  At a start of the program over a tasks.json in which a task's     *)
(* schedule lacks a key, the start does not fail, and every task whose     *)
(* schedule is complete is loaded into self.tasks and, when Daily or       *)
(* Weekly, has a job in the scheduler.                                     *)
(***************************************************************************)
StartsUp == app = "off" /\ app' # "off"
HasMalformed(ts) == \E i \in DOMAIN ts : Malformed(ts[i])
LoadedAndRegistered(t) ==
    /\ t \in Range(tasks')
    /\ t.frequency \in {"Daily", "Weekly"}
           => \E j \in DOMAIN jobs' : jobs'[j].task = t.name
C26_MalformedTaskIsSkipped ==
    [][(StartsUp /\ HasMalformed(tasksFile)) =>
           /\ app' = "running"
           /\ \A i \in DOMAIN tasksFile :
                  ~Malformed(tasksFile[i]) => LoadedAndRegistered(tasksFile[i])]_vars

(***************************************************************************)
(* C27.  The diff pass is read-only: a preview of the changes shows the    *)
(* diff of the two trees and leaves the source tree, the destination tree, *)
(* the tasks, History, Log and the scheduler's jobs as they were.          *)
(***************************************************************************)
\* the step puts a diff on the preview tab
ShowsPreview == preview' # NoPreview /\ preview' # preview
C27_DiffPassIsReadOnly ==
    [][ShowsPreview =>
           /\ preview' = get_changes(SrcTree(source), DstTree(destination))
           /\ UNCHANGED <<src, dst, tasks, tasksFile, history, historyFile,
                          log, logFile, jobs>>]_vars
\* a preview that lists a change is on the tab while the stores hold a
\* task, a job and a record
C27_Witness ==
    /\ preview # NoPreview
    /\ preview.new_files # << >>
    /\ tasks # << >> /\ jobs # << >> /\ history # << >>

(***************************************************************************)
(* C28.  Overwrite-on-visit: every file the walk visits gets exactly one   *)
(* copy attempt, whatever its classification; a successful attempt leaves  *)
(* the source version at the destination, also over a destination file     *)
(* that is as new or newer; after a failed attempt the walk moves on and   *)
(* never comes back to the file.                                           *)
(***************************************************************************)
StepsAt(r, pc) == r \in Runs /\ threads[r].pc = pc /\ threads'[r] # threads[r]
\* the file run r is about to classify or copy
CurrentFile(r) == Head(threads[r].files)
AttemptFollowsVisit(r) ==
    StepsAt(r, "file") =>
        /\ threads'[r].pc = "copy"
        /\ threads'[r].files = threads[r].files
OneAttempt(r) ==
    StepsAt(r, "copy") =>
        LET th == threads[r]
            f == CurrentFile(r)
        IN  /\ threads'[r].files = Tail(th.files)
            /\ threads'[r].copied_files = th.copied_files + 1
            /\ f \notin Range(threads'[r].files)
            /\ threads'[r].error_log = th.error_log
                   => dst'[th.destination].files[f] = SrcTree(th.source).files[f]
\* a run that is through its walk has made as many attempts as the source
\* has files
AttemptsCoverWalk(th) ==
    HasResult(th) =>
        th.copied_files = Cardinality(WalkedFiles(SrcTree(th.source)))
C28_OverwriteOnVisit ==
    /\ [][\A r \in 1..MaxRuns : AttemptFollowsVisit(r) /\ OneAttempt(r)]_vars
    /\ [](\A r \in Runs : AttemptsCoverWalk(threads[r]))
\* a run has ended without errors; it put a file on neither list, and the
\* destination holds the source version of that file
C28_Witness ==
    \E r \in Runs :
        LET th == threads[r]
        IN  /\ HasResult(th)
            /\ th.error_log = << >>
            /\ \A q \in Runs : q = r
            /\ \E f \in WalkedFiles(SrcTree(th.source)) :
                   /\ f \notin Range(th.copied_files_list)
                   /\ f \notin Range(th.modified_files_list)
                   /\ DstTree(th.destination).files[f] = SrcTree(th.source).files[f]

(***************************************************************************)
(* C29.  The execute pass classifies as the diff pass does: when nothing   *)
(* but the run itself changes the file system and no copy fails, the       *)
(* result's copied_files, modified_files and copied_folders are the        *)
(* numbers of new files, modified files and new folders of the diff taken  *)
(* before the run.                                                         *)
(***************************************************************************)
Counts(cf, mf, cd) == [copied_files |-> cf, modified_files |-> mf, copied_folders |-> cd]
\* what a diff lists: its file entries, its modified files, its folder entries
DiffCounts(ch) ==
    Counts(Cardinality({i \in DOMAIN ch.new_files : ch.new_files[i].kind = "file"}),
           Len(ch.modified_files),
           Cardinality({i \in DOMAIN ch.new_files : ch.new_files[i].kind = "folder"}))
ResultCounts(res) == Counts(res.copied_files, res.modified_files, res.copied_folders)
\* the directories the walk of a run has not tested yet at the destination
DirsAhead(th) ==
    IF th.pc = "start" THEN Range(WalkDirs(SrcTree(th.source)))
    ELSE Range(th.dirs) \cup (IF th.pc = "mkdir" THEN {th.cur} ELSE {})
\* the files the run has not classified yet
FilesAhead(th) ==
    {f \in WalkedFiles(SrcTree(th.source)) : DirOf(f) \in DirsAhead(th)}
        \cup (IF th.pc = "file" THEN Range(th.files)
              ELSE IF th.pc = "copy" THEN Range(Tail(th.files))
              ELSE {})
\* what the run has counted so far plus what a diff of the rest of its walk
\* would list now
Projected(th) ==
    LET stree == SrcTree(th.source)
        dtree == DstTree(th.destination)
    IN  Counts(Len(th.copied_files_list)
                   + Cardinality({f \in FilesAhead(th) : ~FileExists(dtree, f)}),
               Len(th.modified_files_list)
                   + Cardinality({f \in FilesAhead(th) :
                                     /\ FileExists(dtree, f)
                                     /\ stree.files[f].mtime > dtree.files[f].mtime}),
               Len(th.copied_folders_list)
                   + Cardinality({d \in DirsAhead(th) : ~DirExists(dtree, d)}))
\* run r takes a step, no other run is active, and r has met no error
StepsAlone(r) ==
    /\ r \in Runs
    /\ threads'[r] # threads[r]
    /\ \A q \in Runs \ {r} : threads[q].pc = "done"
    /\ threads'[r].error_log = << >>
    /\ ~HasFatal(threads'[r])
\* a run that has not begun: its projection is the diff of the two trees
DiffAtStart(th) ==
    th.pc = "start" =>
        Projected(th) = DiffCounts(get_changes(SrcTree(th.source), DstTree(th.destination)))
ProjectionAtEnd(th) ==
    HasResult(th) => ResultCounts(EmittedResult(th)) = Projected(th)
C29_ExecuteClassifiesAsDiff ==
    /\ [](\A r \in Runs : DiffAtStart(threads[r]) /\ ProjectionAtEnd(threads[r]))
    /\ [][\A r \in 1..MaxRuns :
              StepsAlone(r) => Projected(threads'[r]) = Projected(threads[r])]_vars
\* the only run there has been ended without errors after counting a new
\* file, a modified file and a new folder
C29_Witness ==
    /\ Len(threads) = 1
    /\ HasResult(threads[1])
    /\ threads[1].error_log = << >>
    /\ EmittedResult(threads[1]).copied_files = 1
    /\ EmittedResult(threads[1]).modified_files = 1
    /\ EmittedResult(threads[1]).copied_folders = 1

(***************************************************************************)
(* C30.  When a dispatch of task T runs while the user picks a source or a *)
(* destination on the main tab or loads a task, the BackupThread started   *)
(* for T gets T's stored source together with T's stored destination,      *)
(* never one of T's paths paired with a path from elsewhere.               *)
(***************************************************************************)
PairOf(t) == <<t.source, t.destination>>
\* the pairs task T stands for during a dispatch: the entry the dispatch
\* read, and the entry stored under the name now
PairsOfDispatched ==
    {PairOf(sched.task)}
        \cup {PairOf(tasks[i]) : i \in {k \in DOMAIN tasks : tasks[k].name = sched.task.name}}
C30_DispatchNeverMixesPaths ==
    [][DispatchStarts =>
           PairOf(threads'[Len(threads')]) \in PairsOfDispatched]_vars

(***************************************************************************)
(* C31.  deleteTask removes the selected names from self.tasks and leaves  *)
(* the scheduler's jobs as they are: a job registered for a deleted name   *)
(* stays, goes on firing on its schedule, and runs the task that is stored *)
(* under the name when it fires.                                           *)
(***************************************************************************)
\* the step takes names out of self.tasks while the program runs
DeletesTasks ==
    /\ app = "running" /\ app' = "running"
    /\ TaskNamesOf(tasks') \subseteq TaskNamesOf(tasks)
    /\ TaskNamesOf(tasks') # TaskNamesOf(tasks)
\* the entries of ts whose names are in S, in their order
KeepNames(ts, S) == SelectSeq(ts, LAMBDA t : t.name \in S)
JobsStay ==
    (app = "running" /\ app' = "running") =>
        /\ Len(jobs') >= Len(jobs)
        /\ \A i \in DOMAIN jobs :
               /\ jobs'[i].task = jobs[i].task
               /\ jobs'[i].unit = jobs[i].unit
               /\ jobs'[i].at_time = jobs[i].at_time
\* the job that fires for a deleted name has run and waits for its next time
FiresAgainLater ==
    FiresForDeletedTask =>
        /\ app' = "running"
        /\ sched'.pc \in {"sleep", "lookup"}
        /\ jobs'[Head(sched.pending)].last_run = now
        /\ jobs'[Head(sched.pending)].next_run > now
\* the job that fires for a stored name takes the entry stored now
RunsStoredTask ==
    (sched.pc = "lookup" /\ IsTask(FiringJob.task) /\ sched' # sched)
        => sched'.task = CurrentTask(FiringJob.task)
C31_DeleteLeavesJobs ==
    [][/\ DeletesTasks => /\ jobs' = jobs
                          /\ tasks' = KeepNames(tasks, TaskNamesOf(tasks'))
                          /\ tasksFile' = tasks'
       /\ JobsStay
       /\ FiresAgainLater
       /\ RunsStoredTask]_vars

(***************************************************************************)
(* C32.  A scheduled dispatch of a stored task T leaves T's source and T's *)
(* destination in self.source and self.destination: when                   *)
(* run_scheduled_backup returns they are T's, whether its start_backup     *)
(* created a thread or not.                                                *)
(***************************************************************************)
\* run_scheduled_backup returns from its start_backup call
DispatchReturns == sched.pc = "start" /\ sched' # sched
C32_DispatchSetsCurrentPaths ==
    [][DispatchReturns =>
           /\ source' = sched.task.source
           /\ destination' = sched.task.destination]_vars

(***************************************************************************)
(* C33.  History and Log, in memory and on disk, change only when the      *)
(* controller handles the BackupResult of a run that went through its      *)
(* whole pass.  A start that is rejected for an unset path, a start with   *)
(* an unreachable destination, a start that finds no changes and a run     *)
(* that ends in a fatal error leave the four of them as they were.         *)
(***************************************************************************)
recordVars == <<history, historyFile, log, logFile>>
\* the controller handles a backup_finished signal
DeliversResult ==
    /\ events # << >>
    /\ Head(events).kind = "finished"
    /\ events' = Tail(events)
\* a run emits backup_finished
EmitsFinished(r) ==
    /\ r \in DOMAIN threads
    /\ Len(threads'[r].emitted) > Len(threads[r].emitted)
    /\ threads'[r].emitted[Len(threads'[r].emitted)].kind = "finished"
\* start_backup returns without a thread
StartReturnsEarly == ~ShouldStart(variant, source, destination)
\* the records of a session, while no Quit or Startup swaps them
InSession == app = "running" /\ app' = "running"
C33_NoResultNoRecord ==
    [][InSession =>
           /\ recordVars' # recordVars => DeliversResult
           /\ \A r \in DOMAIN threads :
                  EmitsFinished(r) => threads[r].pc = "result"
           /\ (StartReturnsEarly /\ threads' = threads /\ events' = events)
                  => recordVars' = recordVars]_vars
\* a run ended in a fatal error, its signal was handled, and nothing was
\* recorded
C33_Witness ==
    /\ app = "running"
    /\ events = << >>
    /\ \E r \in Runs : HasFatal(threads[r])
    /\ history = << >> /\ historyFile = << >>
    /\ log = << >> /\ logFile = << >>

(***************************************************************************)
(* C34.  save_task with a task name that is empty or only white space, or  *)
(* with the task source or the task destination not set, shows its error   *)
(* and returns: the program goes on, and self.tasks, tasks.json and the    *)
(* scheduler's jobs are what they were.                                    *)
(***************************************************************************)
\* a name that is empty or consists of white space
BlankName(text) == text \in {"", " "}
\* a directory that was never chosen, or whose dialog was cancelled
NotSet(p) == p \in {Unset, ""}
\* what the form holds is to be refused
ToBeRefused(text) ==
    BlankName(text) \/ NotSet(task_source) \/ NotSet(task_destination)
C34_SaveTaskRejectsIncomplete ==
    [][\A text \in SaveTexts, f \in Frequencies, tm \in InputTimes, dy \in InputDays :
           (ToBeRefused(text) /\ SaveTask(text, f, tm, dy)) =>
               /\ app' = "running"
               /\ tasks' = tasks
               /\ tasksFile' = tasksFile
               /\ jobs' = jobs]_vars
\* the same, for a form whose two directories have been chosen
C34_BlankNameRefused ==
    [][\A text \in SaveTexts, f \in Frequencies, tm \in InputTimes, dy \in InputDays :
           (BlankName(text) /\ ~NotSet(task_source) /\ ~NotSet(task_destination)
                /\ SaveTask(text, f, tm, dy)) =>
               /\ tasks' = tasks
               /\ tasksFile' = tasksFile
               /\ jobs' = jobs]_vars

(***************************************************************************)
(* C35.  A BackupThread works on the source and the destination it was     *)
(* created with.  Whatever self.source and self.destination become while   *)
(* it runs, it keeps its two paths, it writes into its own destination     *)
(* only, what it copies there is what its own source holds, and the        *)
(* source and destination of its result are the two paths it was created   *)
(* with.                                                                   *)
(***************************************************************************)
\* run r takes a step
Steps(r) == r \in DOMAIN threads /\ threads'[r] # threads[r]
\* the controller's paths are not the ones run r was created with
PathsMovedOn(r) ==
    source # threads[r].source /\ destination # threads[r].destination
\* the threads there are keep their paths, and a new one takes the current
KeepsCaptured ==
    /\ \A r \in DOMAIN threads :
           /\ threads'[r].source = threads[r].source
           /\ threads'[r].destination = threads[r].destination
    /\ ThreadCreated =>
           /\ threads'[Len(threads')].source = source
           /\ threads'[Len(threads')].destination = destination
\* a destination changes only under a run created with it, and a file
\* written there is the captured source's file or a copy that broke off
WritesOwnDestination ==
    \A p \in DstPaths :
        dst'[p] # dst[p] =>
            \E r \in DOMAIN threads :
                /\ Steps(r)
                /\ threads[r].destination = p
                /\ \A f \in FileIds :
                       dst'[p].files[f] # dst[p].files[f] =>
                           \/ dst'[p].files[f] = SrcTree(threads[r].source).files[f]
                           \/ dst'[p] = PartialCopy(dst[p], f)
\* the result names the captured paths
ResultNamesCaptured ==
    \A r \in DOMAIN threads :
        EmitsFinished(r) =>
            LET res == threads'[r].emitted[Len(threads'[r].emitted)].result
            IN  /\ res.source = threads[r].source
                /\ res.destination = threads[r].destination
                /\ events' = Append(events, FinishedEvent(r, res))
C35_RunKeepsCapturedPaths ==
    [][/\ KeepsCaptured
       /\ WritesOwnDestination
       /\ ResultNamesCaptured]_vars
\* a run has copied its source's file into its destination and is about to
\* emit its result, while the controller holds another source and another
\* destination
C35_Witness ==
    \E r \in Runs :
        /\ threads[r].pc = "result"
        /\ PathsMovedOn(r)
        /\ threads[r].copied_files_list = <<1>>
        /\ dst[threads[r].destination].files[1] = src[threads[r].source].files[1]
        /\ dst[destination].files[1] # src[threads[r].source].files[1]

(***************************************************************************)
(* C36.  In every result of a pass over a source tree that stays as it is, *)
(* copied_folders + modified_folders is the number of directories of the   *)
(* source tree, the root included; every directory is on exactly one of    *)
(* the two lists, once; and in BackupBanana.py, which tests the            *)
(* destination root before the walk, the root is a modified folder, so     *)
(* modified_folders >= 1.                                                  *)
(***************************************************************************)
\* how often d is on the list
Occurrences(list, d) == Cardinality({i \in DOMAIN list : list[i] = d})
\* the directories of the source tree of a run, the root first
SourceDirs(th) == WalkDirs(SrcTree(th.source))
\* the two folder tallies of a result cover the source directories
TalliesCoverSource(th) ==
    /\ EmittedResult(th).copied_folders + EmittedResult(th).modified_folders
           = Len(SourceDirs(th))
    /\ \A d \in {RootDir} \cup Subdirs :
           Occurrences(th.copied_folders_list \o th.modified_folders_list, d)
               = IF d \in Range(SourceDirs(th)) THEN 1 ELSE 0
\* the root is among the modified folders
RootIsModified(th) ==
    /\ RootDir \in ModifiedFolders(th)
    /\ EmittedResult(th).modified_folders >= 1
C36_TalliesCoverSource ==
    \A r \in Runs : HasResult(threads[r]) => TalliesCoverSource(threads[r])
C36_FolderTallies ==
    \A r \in Runs :
        HasResult(threads[r]) =>
            /\ TalliesCoverSource(threads[r])
            /\ variant = "WIN" => RootIsModified(threads[r])

====
